---- MODULE Spec2Model ----
(***************************************************************************)
(* Timetable generator (src/app.py): the greedy placement engine           *)
(* TimetableGenerator.generate with its closures can_place, place_entry    *)
(* and suggest_alternatives, and the conflict detector detect_conflicts.   *)
(*                                                                         *)
(* Python dicts are functions whose DOMAIN is the key set; a lookup of a   *)
(* missing key raises KeyError, which ends generate() in pc = "raised".    *)
(* Lists are sequences.  random.shuffle is a nondeterministic choice of    *)
(* the order in which the teacher and classroom lists are walked.  The     *)
(* cosmetic 'subject_color' field of an entry is left out of the entry     *)
(* record: nothing reads it.                                               *)
(***************************************************************************)
EXTENDS Integers, Sequences, FiniteSets, TLC

VARIABLES
    teachers,            \* self.teachers
    subjects,            \* self.subjects
    classrooms,          \* self.classrooms
    time_slots,          \* self.time_slots
    days,                \* self.days
    timetable,           \* self.timetable
    conflicts,           \* self.conflicts
    teacher_schedule,    \* generate(): teacher name -> day -> slot -> occupied
    classroom_schedule,  \* generate(): classroom -> day -> slot -> occupied
    cohort_schedule,     \* generate(): semester -> day -> slot -> occupied
    cohort_load,         \* generate(): semester -> day -> number of sessions
    si,                  \* position of the `for subject in self.subjects` loop
    placed,              \* generate(): placed
    attempts_guard,      \* generate(): attempts_guard
    detect_calls,        \* number of detect_conflicts() calls on this instance
    pc,                  \* control point
    timetables,          \* module global timetables: session id -> stored result
    session_memory,      \* module global session_memory: session id -> inputs
    request,             \* the request being handled (request.json and what
                         \* the handler resolved from it)
    response,            \* the last response returned
    parked               \* the locals of a second handler thread while the
                         \* first one runs

vars == <<teachers, subjects, classrooms, time_slots, days, timetable, conflicts,
          teacher_schedule, classroom_schedule, cohort_schedule, cohort_load,
          si, placed, attempts_guard, detect_calls, pc,
          timetables, session_memory, request, response, parked>>

inputs == <<teachers, subjects, classrooms, time_slots, days>>

grids == <<teacher_schedule, classroom_schedule, cohort_schedule, cohort_load>>

web == <<timetables, session_memory, request, response>>

(***************************************************************************)
(* Bounds of the checked input family.                                     *)
(***************************************************************************)
\* largest sessions_per_week a subject of the input family asks for
MaxSessions == 2

\* longest entry list handed to the standalone conflict detector
MaxEntries == 3

\* most detect_conflicts() calls made on one instance
MaxDetectCalls == 2

\* most days of a scenario input
MaxScenarioDays == 5

\* subject.get('sessions_per_week', 2)
DefaultSessions == 2

\* attempts_guard < sessions_per_week * 300
AttemptFactor == 300

\* suggest_alternatives(subject, max_suggestions=5)
MaxSuggestions == 5

DayPool == <<"Mon", "Tue">>

SlotPool == <<"S1", "S2">>

RoomPool == <<"R1", "R2">>

TeacherNames == <<"T1", "T2">>

SubjectNames == <<"Math", "Art">>

\* Python's None
None == "<None>"

EmptyDict == <<>>

\* no request has been received
NoRequest == [kind |-> "none"]

\* no response has been returned for the request being handled
NoResponse == [status |-> 0]

\* the locals of a handler thread that has no request
IdleLocals ==
    [teachers |-> <<>>, subjects |-> <<>>, classrooms |-> <<>>, time_slots |-> <<>>,
     days |-> <<>>, timetable |-> <<>>, conflicts |-> <<>>,
     teacher_schedule |-> EmptyDict, classroom_schedule |-> EmptyDict,
     cohort_schedule |-> EmptyDict, cohort_load |-> EmptyDict,
     si |-> 0, placed |-> 0, attempts_guard |-> 0, detect_calls |-> 0,
     pc |-> "start", request |-> NoRequest, response |-> NoResponse]

Prefixes(pool) == {SubSeq(pool, 1, k) : k \in 0..Len(pool)}


(***************************************************************************)
(* The input family: what the caller hands to TimetableGenerator(...).     *)
(* Teacher names are unique (T1, T2 by position), subject names are unique *)
(* (Math, Art by position).  A subject may lack 'semester' and may lack    *)
(* 'sessions_per_week'; a teacher may lack 'availability'.  A teacher's    *)
(* subject list is spelled in its own letter case.                         *)
(***************************************************************************)
\* a teacher of math only; of art and math; of art and math who on Mon is free
\* at S2 only
TeacherOptions(nm) ==
    {[name |-> nm, subjects |-> <<"art">>],
     [name |-> nm, subjects |-> <<"Art", "MATH">>],
     [name |-> nm, subjects |-> <<"Art", "MATH">>, availability |-> ("Mon" :> {"S2"})]}

SubjectOptions(nm) ==
    {[name |-> nm, sessions_per_week |-> n] : n \in 0..MaxSessions}
    \cup {[name |-> nm, semester |-> "A", sessions_per_week |-> n] : n \in 0..MaxSessions}
    \cup {[name |-> nm, semester |-> "A"]}

\* every list <<t1, ..., tk>>, k <= Len(TeacherNames), ti a teacher named TeacherNames[i]
TeacherLists ==
    UNION {{f \in [1..k -> UNION {TeacherOptions(TeacherNames[i]) : i \in 1..k}] :
                \A i \in 1..k : f[i] \in TeacherOptions(TeacherNames[i])} :
           k \in 0..Len(TeacherNames)}

\* every list <<s1, ..., sk>>, k <= Len(SubjectNames), si a subject named SubjectNames[i]
SubjectLists ==
    UNION {{f \in [1..k -> UNION {SubjectOptions(SubjectNames[i]) : i \in 1..k}] :
                \A i \in 1..k : f[i] \in SubjectOptions(SubjectNames[i])} :
           k \in 0..Len(SubjectNames)}

\* (days, time_slots, classrooms): every non-empty combination, and each of the
\* three lists empty with the other two at full length
Shapes ==
    {sh \in Prefixes(DayPool) \X Prefixes(SlotPool) \X Prefixes(RoomPool) :
        LET empty == {i \in DOMAIN sh : sh[i] = <<>>}
        IN \/ empty = {}
           \/ /\ Cardinality(empty) = 1
              /\ \A i \in DOMAIN sh \ empty : Len(sh[i]) = Len(DayPool)}

(***************************************************************************)
(* Python helpers.                                                         *)
(***************************************************************************)
\* dict.get(k, default)
Get(d, k, default) == IF k \in DOMAIN d THEN d[k] ELSE default

\* str.lower() on the names of the input family
lower(s) ==
    CASE s \in {"Math", "math", "MATH"} -> "math"
      [] s \in {"Art", "art", "ART"} -> "art"
      [] OTHER -> s

\* the elements of a list
Range(seq) == {seq[i] : i \in DOMAIN seq}

\* the value of a one-element set; {F(x) : x \in {v}} is F(v) with v
\* evaluated once
Only(S) == CHOOSE r \in S : TRUE

RECURSIVE Flatten(_)
\* the concatenation of a list of lists
Flatten(ss) ==
    LET Rest(v) == IF v = <<>> THEN <<>> ELSE Head(v) \o Flatten(Tail(v))
    IN Only({Rest(v) : v \in {ss}})

\* every order random.shuffle can leave a list in
Shuffles(seq) ==
    {[i \in 1..Len(seq) |-> seq[p[i]]] : p \in Permutations(1..Len(seq))}

\* subject.get('semester', 'General')
SemesterOf(subject) == Get(subject, "semester", "General")

\* subject.get('sessions_per_week', 2)
SessionsOf(subject) == Get(subject, "sessions_per_week", DefaultSessions)

\* subject['name'].lower() in [s.lower() for s in t.get('subjects', [])]
teaches(t, subject) ==
    \E s \in Range(Get(t, "subjects", <<>>)) : lower(s) = lower(subject.name)

\* is_teacher_available ignoring the availability map
is_teacher_available_always(teacher, day, time_slot) == TRUE

is_teacher_available(teacher, day, time_slot) ==
    LET availability == Get(teacher, "availability", EmptyDict)
    IN IF day \notin DOMAIN availability THEN TRUE
       ELSE time_slot \in availability[day]

\* a grid created with every flag set
FreeGrid_occupied(ds, ss) == [d \in Range(ds) |-> [s \in Range(ss) |-> TRUE]]

\* {day: {slot: False for slot in self.time_slots} for day in self.days}
FreeGrid(ds, ss) == [d \in Range(ds) |-> [s \in Range(ss) |-> FALSE]]

\* a cohort grid keyed by 'General' alone
CohortKeys_general_only(subjs) == {"General"}

\* set([s.get('semester','General') for s in self.subjects]) or {'General'}
CohortKeys(subjs) ==
    LET sems == {SemesterOf(subjs[i]) : i \in DOMAIN subjs}
    IN IF sems = {} THEN {"General"} ELSE sems

\* a score that ignores the day's load
rank_slots_unweighted(load, day, slot, cohort) == 0

rank_slots(load, day, slot, cohort) ==
    LET day_load == Get(Get(load, cohort, EmptyDict), day, 0)
        contiguous_bonus == 0
    IN day_load * 10 - contiguous_bonus


\* for day in self.days: for slot in self.time_slots: (day, slot)
DaySlotPairs ==
    [k \in 1..(Len(days) * Len(time_slots)) |->
        <<days[((k - 1) \div Len(time_slots)) + 1],
          time_slots[((k - 1) % Len(time_slots)) + 1]>>]

\* list.sort(key=lambda x: x[0]): ascending and stable, so c[i] lands behind
\* every element of a smaller score and every earlier element of the same score
sort_by_score(c) ==
    LET before(i) == {j \in DOMAIN c : c[j][1] < c[i][1] \/ (c[j][1] = c[i][1] /\ j < i)}
    IN [p \in DOMAIN c |-> c[CHOOSE i \in DOMAIN c : Cardinality(before(i)) = p - 1]]

\* the candidate list of one attempt before it is sorted: (score, day, slot)
scored_pairs(subject, pairs) ==
    [i \in DOMAIN pairs |->
        <<rank_slots(cohort_load, pairs[i][1], pairs[i][2], SemesterOf(subject)),
          pairs[i][1], pairs[i][2]>>]

\* the ranked candidate list of one attempt
candidates(subject) ==
    LET Scored(pairs) == scored_pairs(subject, pairs)
    IN Only({sort_by_score(c) : c \in {Only({Scored(pairs) : pairs \in {DaySlotPairs}})}})

(***************************************************************************)
(* The closures of generate().                                             *)
(***************************************************************************)
\* can_place without its cohort-grid test
can_place_no_cohort(subject, teacher, classroom, day, slot) ==
    IF teacher_schedule[teacher.name][day][slot] THEN FALSE
    ELSE IF classroom_schedule[classroom][day][slot] THEN FALSE
    ELSE IF ~is_teacher_available(teacher, day, slot) THEN FALSE
    ELSE TRUE

\* can_place without its availability test
can_place_ignores_availability(subject, teacher, classroom, day, slot) ==
    LET semester == SemesterOf(subject)
    IN IF teacher_schedule[teacher.name][day][slot] THEN FALSE
       ELSE IF classroom_schedule[classroom][day][slot] THEN FALSE
       ELSE IF cohort_schedule[semester][day][slot] THEN FALSE
       ELSE TRUE

can_place(subject, teacher, classroom, day, slot) ==
    LET semester == SemesterOf(subject)
    IN IF teacher_schedule[teacher.name][day][slot] THEN FALSE
       ELSE IF classroom_schedule[classroom][day][slot] THEN FALSE
       ELSE IF cohort_schedule[semester][day][slot] THEN FALSE
       ELSE IF ~is_teacher_available(teacher, day, slot) THEN FALSE
       ELSE TRUE

\* can_place reaches cohort_schedule[semester] and the key is missing: KeyError
can_place_raises(subject, teacher, classroom, day, slot) ==
    /\ ~teacher_schedule[teacher.name][day][slot]
    /\ ~classroom_schedule[classroom][day][slot]
    /\ SemesterOf(subject) \notin DOMAIN cohort_schedule

\* the load update with `= 1` in place of `+= 1`
load_increment_set_one(load, semester, day) ==
    LET l1 == IF semester \in DOMAIN load THEN load ELSE load @@ (semester :> EmptyDict)
        d1 == IF day \in DOMAIN l1[semester] THEN l1[semester]
              ELSE l1[semester] @@ (day :> 0)
    IN [l1 EXCEPT ![semester] = [d1 EXCEPT ![day] = 1]]

\* cohort_load.setdefault(semester, {}).setdefault(day, 0); cohort_load[semester][day] += 1
load_increment(load, semester, day) ==
    LET l1 == IF semester \in DOMAIN load THEN load ELSE load @@ (semester :> EmptyDict)
        d1 == IF day \in DOMAIN l1[semester] THEN l1[semester]
              ELSE l1[semester] @@ (day :> 0)
    IN [l1 EXCEPT ![semester] = [d1 EXCEPT ![day] = @ + 1]]

\* the entry dict of place_entry; 'subject_color', a function of the subject
\* name alone, is left out
new_entry(subject, teacher, classroom, day, slot) ==
    [day |-> day, time_slot |-> slot, subject |-> subject.name,
     teacher |-> teacher.name, classroom |-> classroom,
     semester |-> SemesterOf(subject)]

\* place_entry with the entry put at the head of the timetable
place_entry_prepend(subject, teacher, classroom, day, slot) ==
    LET semester == SemesterOf(subject)
    IN /\ timetable' = <<new_entry(subject, teacher, classroom, day, slot)>> \o timetable
       /\ teacher_schedule' = [teacher_schedule EXCEPT ![teacher.name][day][slot] = TRUE]
       /\ classroom_schedule' = [classroom_schedule EXCEPT ![classroom][day][slot] = TRUE]
       /\ cohort_schedule' = [cohort_schedule EXCEPT ![semester][day][slot] = TRUE]
       /\ cohort_load' = load_increment(cohort_load, semester, day)

place_entry(subject, teacher, classroom, day, slot) ==
    LET semester == SemesterOf(subject)
    IN /\ timetable' = Append(timetable, new_entry(subject, teacher, classroom, day, slot))
       /\ teacher_schedule' = [teacher_schedule EXCEPT ![teacher.name][day][slot] = TRUE]
       /\ classroom_schedule' = [classroom_schedule EXCEPT ![classroom][day][slot] = TRUE]
       /\ cohort_schedule' = [cohort_schedule EXCEPT ![semester][day][slot] = TRUE]
       /\ cohort_load' = load_increment(cohort_load, semester, day)

\* f"{day} @ {slot}"
suggestion_text(day, slot) == day \o " @ " \o slot

\* the available teachers of suggest_alternatives without the subject filter
suggest_teachers_any_subject(subject, day, slot) ==
    LET Ok(t) == /\ ~teacher_schedule[t.name][day][slot]
                 /\ is_teacher_available(t, day, slot)
    IN SelectSeq(teachers, Ok)

\* the available teachers of suggest_alternatives without the availability test
suggest_teachers_ignore_availability(subject, day, slot) ==
    LET Ok(t) == /\ teaches(t, subject)
                 /\ ~teacher_schedule[t.name][day][slot]
    IN SelectSeq(teachers, Ok)

\* the teachers suggest_alternatives counts as available at (day, slot)
suggest_teachers(subject, day, slot) ==
    LET Ok(t) == /\ teaches(t, subject)
                 /\ ~teacher_schedule[t.name][day][slot]
                 /\ is_teacher_available(t, day, slot)
    IN SelectSeq(teachers, Ok)

\* the classrooms not occupied at (day, slot)
free_classrooms(rooms, day, slot) ==
    LET Free(c) == ~classroom_schedule[c][day][slot]
    IN SelectSeq(rooms, Free)

\* suggest_alternatives without its cohort-grid test
suggest_qualifies_no_cohort(subject, day, slot) ==
    IF suggest_teachers(subject, day, slot) = <<>> THEN FALSE
    ELSE IF free_classrooms(classrooms, day, slot) = <<>> THEN FALSE
    ELSE TRUE

\* one (day, slot) of suggest_alternatives passes all three `continue` tests
suggest_qualifies(subject, day, slot) ==
    IF suggest_teachers(subject, day, slot) = <<>> THEN FALSE
    ELSE IF free_classrooms(classrooms, day, slot) = <<>> THEN FALSE
    ELSE IF cohort_schedule[SemesterOf(subject)][day][slot] THEN FALSE
    ELSE TRUE

RECURSIVE suggest_scan(_, _, _, _)
suggest_scan(subject, pairs, suggestions, max_suggestions) ==
    IF pairs = <<>> THEN suggestions
    ELSE LET day == Head(pairs)[1]
             slot == Head(pairs)[2]
         IN IF ~suggest_qualifies(subject, day, slot)
            THEN suggest_scan(subject, Tail(pairs), suggestions, max_suggestions)
            ELSE LET more == Append(suggestions, suggestion_text(day, slot))
                 IN IF Len(more) >= max_suggestions THEN more
                    ELSE suggest_scan(subject, Tail(pairs), more, max_suggestions)

\* suggest_alternatives without a cap on the list
suggest_alternatives_uncapped(subject, max_suggestions) ==
    suggest_scan(subject, DaySlotPairs, <<>>, Len(DaySlotPairs) + 1)

suggest_alternatives(subject, max_suggestions) ==
    suggest_scan(subject, DaySlotPairs, <<>>, max_suggestions)

\* suggest_alternatives reaches cohort_schedule[semester] and the key is missing
suggest_raises(subject) ==
    /\ SemesterOf(subject) \notin DOMAIN cohort_schedule
    /\ \E i \in DOMAIN DaySlotPairs :
          /\ suggest_teachers(subject, DaySlotPairs[i][1], DaySlotPairs[i][2]) # <<>>
          /\ free_classrooms(classrooms, DaySlotPairs[i][1], DaySlotPairs[i][2]) # <<>>


(***************************************************************************)
(* One attempt of the placement loop: the walk over the ranked candidates, *)
(* the shuffled eligible teachers and the shuffled free classrooms, up to  *)
(* the first can_place that answers True.  torder and rorder are the       *)
(* orders the shuffles leave self.teachers and self.classrooms in; the     *)
(* lists the code shuffles are their filtered sub-lists.                   *)
(***************************************************************************)
Miss == [kind |-> "miss"]

Raise == [kind |-> "raise"]

RECURSIVE scan_classrooms(_, _, _, _, _)
\* for classroom in free_classrooms: if can_place(...): place_entry(...); break
scan_classrooms(subject, teacher, day, slot, rooms) ==
    IF rooms = <<>> THEN Miss
    ELSE IF can_place_raises(subject, teacher, Head(rooms), day, slot) THEN Raise
    ELSE IF can_place(subject, teacher, Head(rooms), day, slot)
         THEN [kind |-> "hit", teacher |-> teacher, classroom |-> Head(rooms),
               day |-> day, slot |-> slot]
    ELSE scan_classrooms(subject, teacher, day, slot, Tail(rooms))

RECURSIVE scan_teachers(_, _, _, _, _)
\* for teacher in available_teachers: skip the unavailable, walk the free classrooms
scan_teachers(subject, day, slot, ts, rorder) ==
    IF ts = <<>> THEN Miss
    ELSE IF ~is_teacher_available(Head(ts), day, slot)
         THEN scan_teachers(subject, day, slot, Tail(ts), rorder)
    ELSE LET r == scan_classrooms(subject, Head(ts), day, slot,
                                  free_classrooms(rorder, day, slot))
         IN IF r.kind = "miss"
            THEN scan_teachers(subject, day, slot, Tail(ts), rorder)
            ELSE r

\* available_teachers without the subject filter
available_teachers_unfiltered(subject, torder) == torder

\* the teachers who teach the subject, in the shuffled order
available_teachers(subject, torder) ==
    LET Teaches(t) == teaches(t, subject)
    IN SelectSeq(torder, Teaches)

\* a scan that tries the first candidate only
scan_candidates_first_only(subject, cands, torder, rorder) ==
    IF cands = <<>> THEN Miss
    ELSE scan_teachers(subject, Head(cands)[2], Head(cands)[3],
                       available_teachers(subject, torder), rorder)

RECURSIVE scan_candidates(_, _, _, _)
\* for _, day, slot in candidates: ... if assigned_here: break
scan_candidates(subject, cands, torder, rorder) ==
    IF cands = <<>> THEN Miss
    ELSE LET r == scan_teachers(subject, Head(cands)[2], Head(cands)[3],
                                available_teachers(subject, torder), rorder)
         IN IF r.kind = "miss"
            THEN scan_candidates(subject, Tail(cands), torder, rorder)
            ELSE r

\* the while test with the budget factor on the wrong side
while_cond_budget_inverted(sessions_per_week, placed_now, guard) ==
    placed_now < sessions_per_week /\ guard * AttemptFactor < sessions_per_week

\* the while test with `placed <= sessions_per_week`
while_cond_off_by_one(sessions_per_week, placed_now, guard) ==
    placed_now <= sessions_per_week /\ guard < sessions_per_week * AttemptFactor

\* while placed < sessions_per_week and attempts_guard < sessions_per_week * 300
while_cond(sessions_per_week, placed_now, guard) ==
    placed_now < sessions_per_week /\ guard < sessions_per_week * AttemptFactor

\* missing = sessions_per_week, whatever was placed
missing_sessions_full(sessions_per_week, placed_now) == sessions_per_week

\* missing = sessions_per_week - placed
missing_sessions(sessions_per_week, placed_now) == sessions_per_week - placed_now

\* the record appended when a subject is not fully placed
unplaced_record(subject, missing, suggestions) ==
    [type |-> "student", semester |-> SemesterOf(subject), time_slot |-> None,
     day |-> None, subjects |-> <<subject.name>>, missing_sessions |-> missing,
     suggestions |-> suggestions]

\* the next iteration of `for subject in self.subjects` (placed = 0,
\* attempts_guard = 0), or the end of the loop; guard_now is attempts_guard as
\* the finished subject left it
enter_subject(i, guard_now) ==
    /\ si' = i
    /\ IF i <= Len(subjects)
       THEN pc' = "while" /\ placed' = 0 /\ attempts_guard' = 0
       ELSE pc' = "detect" /\ placed' = placed /\ attempts_guard' = guard_now

\* lines 186-198 for the current subject, then on to the next subject
subject_epilogue(subject, guard_now) ==
    IF placed < SessionsOf(subject)
    THEN IF suggest_raises(subject)
         THEN /\ pc' = "raised"
              /\ attempts_guard' = guard_now
              /\ UNCHANGED <<conflicts, si, placed>>
         ELSE /\ conflicts' = Append(conflicts,
                      unplaced_record(subject,
                          missing_sessions(SessionsOf(subject), placed),
                          suggest_alternatives(subject, MaxSuggestions)))
              /\ enter_subject(si + 1, guard_now)
    ELSE /\ conflicts' = conflicts
         /\ enter_subject(si + 1, guard_now)

(***************************************************************************)
(* detect_conflicts().  Python dicts keep their keys in insertion order,   *)
(* so a map built with setdefault(key, []).append(e) is the list of        *)
(* (key, entries) groups in the order the keys first occur.                *)
(***************************************************************************)
slot_key(e) == <<e.day, e.time_slot>>

teacher_key(e) == e.teacher

classroom_key(e) == e.classroom

\* e.get('semester', 'General')
cohort_key(e) == Get(e, "semester", "General")

\* the key of entry e in the map of that name: indexed, teacher_map,
\* classroom_map or cohort_map
key_of(map, e) ==
    CASE map = "indexed" -> slot_key(e)
      [] map = "teacher_map" -> teacher_key(e)
      [] map = "classroom_map" -> classroom_key(e)
      [] map = "cohort_map" -> cohort_key(e)

\* the map of that name built from entries: <<key, entries with that key>> in
\* the order the keys first occur
group_by(map, entries) ==
    LET IsFirst(i) == \A j \in 1..(i - 1) : key_of(map, entries[j]) # key_of(map, entries[i])
        Group(k) == LET Same(e) == key_of(map, e) = k
                    IN <<k, SelectSeq(entries, Same)>>
        Groups(firsts) ==
            [g \in DOMAIN firsts |->
                Only({Group(k) : k \in {key_of(map, entries[firsts[g]])}})]
    IN Only({Groups(firsts) : firsts \in {SelectSeq([i \in DOMAIN entries |-> i], IsFirst)}})

\* the entries grouped by (day, time_slot) over consecutive runs only, as
\* itertools.groupby does on an unsorted list
indexed_consecutive(tt) ==
    LET IsStart(i) == i = 1 \/ slot_key(tt[i]) # slot_key(tt[i - 1])
        Runs(starts) ==
            [g \in DOMAIN starts |->
                <<slot_key(tt[starts[g]]),
                  SubSeq(tt, starts[g],
                         IF g = Len(starts) THEN Len(tt) ELSE starts[g + 1] - 1)>>]
    IN Only({Runs(starts) : starts \in {SelectSeq([i \in DOMAIN tt |-> i], IsStart)}})

\* indexed.setdefault((e['day'], e['time_slot']), []).append(e)
indexed(tt) == group_by("indexed", tt)

\* the clash test with `len(arr) > 2`
is_clash_over_two(arr) == Len(arr) > 2

\* if len(arr) > 1
is_clash(arr) == Len(arr) > 1

\* [x['subject'] for x in arr]
subjects_of(arr) == [i \in DOMAIN arr |-> arr[i].subject]

teacher_conflict(t, day, slot, arr) ==
    [type |-> "teacher", teacher |-> t, day |-> day, time_slot |-> slot,
     subjects |-> subjects_of(arr)]

classroom_conflict(c, day, slot, arr) ==
    [type |-> "classroom", classroom |-> c, day |-> day, time_slot |-> slot,
     subjects |-> subjects_of(arr)]

cohort_conflict(cohort, day, slot, arr) ==
    [type |-> "student", semester |-> cohort, day |-> day, time_slot |-> slot,
     subjects |-> subjects_of(arr)]

\* the record appended for key k of the map of that name
conflict_record(map, k, day, slot, arr) ==
    CASE map = "teacher_map" -> teacher_conflict(k, day, slot, arr)
      [] map = "classroom_map" -> classroom_conflict(k, day, slot, arr)
      [] map = "cohort_map" -> cohort_conflict(k, day, slot, arr)

\* for k, arr in a_map.items(): if len(arr) > 1: conflicts.append(...)
map_conflicts(map, day, slot, entries) ==
    LET Clash(g) == is_clash(g[2])
        Records(hits) ==
            [i \in DOMAIN hits |-> conflict_record(map, hits[i][1], day, slot, hits[i][2])]
    IN Only({Records(hits) : hits \in {SelectSeq(group_by(map, entries), Clash)}})

\* the records of one (day, slot): teacher, then classroom, then cohort
slot_conflicts(day, slot, entries) ==
    map_conflicts("teacher_map", day, slot, entries)
    \o map_conflicts("classroom_map", day, slot, entries)
    \o map_conflicts("cohort_map", day, slot, entries)

\* the local list `conflicts` of detect_conflicts
clash_records(tt) ==
    LET Records(groups) ==
            Flatten([g \in DOMAIN groups |->
                slot_conflicts(groups[g][1][1], groups[g][1][2], groups[g][2])])
    IN Only({Records(groups) : groups \in {indexed(tt)}})

\* self.conflicts.extend(conflicts)
detect_conflicts ==
    /\ conflicts' = conflicts \o clash_records(timetable)
    /\ detect_calls' = detect_calls + 1

(***************************************************************************)
(* generate(): the state after construction and the steps of one run.      *)
(***************************************************************************)
Inputs ==
    {[teachers |-> t, subjects |-> s, days |-> sh[1], time_slots |-> sh[2],
      classrooms |-> sh[3]] : t \in TeacherLists, s \in SubjectLists, sh \in Shapes}

\* no generator object yet
Init ==
    /\ teachers = <<>>
    /\ subjects = <<>>
    /\ classrooms = <<>>
    /\ time_slots = <<>>
    /\ days = <<>>
    /\ timetable = <<>>
    /\ conflicts = <<>>
    /\ teacher_schedule = EmptyDict
    /\ classroom_schedule = EmptyDict
    /\ cohort_schedule = EmptyDict
    /\ cohort_load = EmptyDict
    /\ si = 0
    /\ placed = 0
    /\ attempts_guard = 0
    /\ detect_calls = 0
    /\ pc = "start"
    /\ timetables = EmptyDict
    /\ session_memory = EmptyDict
    /\ request = NoRequest
    /\ response = NoResponse
    /\ parked = IdleLocals

\* TimetableGenerator.__init__ on a request's lists
Construct ==
    /\ pc = "start"
    /\ \E inp \in Inputs :
          /\ teachers' = inp.teachers
          /\ subjects' = inp.subjects
          /\ classrooms' = inp.classrooms
          /\ time_slots' = inp.time_slots
          /\ days' = inp.days
    /\ timetable' = <<>>
    /\ conflicts' = <<>>
    /\ pc' = "constructed"
    /\ UNCHANGED <<grids, si, placed, attempts_guard, detect_calls, web, parked>>

\* generate(), lines 51-81: reset the result lists, build the grids
Generate ==
    /\ pc = "constructed"
    /\ timetable' = <<>>
    /\ conflicts' = <<>>
    /\ teacher_schedule' =
           [n \in {teachers[i].name : i \in DOMAIN teachers} |-> FreeGrid(days, time_slots)]
    /\ classroom_schedule' = [c \in Range(classrooms) |-> FreeGrid(days, time_slots)]
    /\ cohort_schedule' = [h \in CohortKeys(subjects) |-> FreeGrid(days, time_slots)]
    /\ cohort_load' = EmptyDict
    /\ enter_subject(1, attempts_guard)
    /\ UNCHANGED <<inputs, detect_calls, web, parked>>

\* one pass of the while body, lines 147-184 (and 186-198 after a `break`)
Attempt ==
    /\ pc = "while"
    /\ while_cond(SessionsOf(subjects[si]), placed, attempts_guard)
    /\ \E torder \in Shuffles(teachers), rorder \in Shuffles(classrooms) :
       \E subject \in {subjects[si]} :
       \E cands \in {candidates(subject)} :
       \E r \in {scan_candidates(subject, cands, torder, rorder)} :
          IF r.kind = "hit"
          THEN /\ place_entry(subject, r.teacher, r.classroom, r.day, r.slot)
               /\ placed' = placed + 1
               /\ attempts_guard' = attempts_guard + 1
               /\ UNCHANGED <<conflicts, si, pc>>
          ELSE IF r.kind = "raise"
          THEN /\ pc' = "raised"
               /\ attempts_guard' = attempts_guard + 1
               /\ UNCHANGED <<timetable, conflicts, grids, si, placed>>
          ELSE /\ subject_epilogue(subject, attempts_guard + 1)
               /\ UNCHANGED <<timetable, grids>>
    /\ UNCHANGED <<inputs, detect_calls, web, parked>>

\* the while test fails, lines 147 and 186-198
ExitWhile ==
    /\ pc = "while"
    /\ ~while_cond(SessionsOf(subjects[si]), placed, attempts_guard)
    /\ subject_epilogue(subjects[si], attempts_guard)
    /\ UNCHANGED <<inputs, timetable, grids, detect_calls, web, parked>>

\* lines 200-206: the safety-net detection, then return
Detect ==
    /\ pc = "detect"
    /\ detect_conflicts
    /\ pc' = "done"
    /\ UNCHANGED <<inputs, timetable, grids, si, placed, attempts_guard, web, parked>>

Next == Construct \/ Generate \/ Attempt \/ ExitWhile \/ Detect

Spec == Init /\ [][Next]_vars


(***************************************************************************)
(* The detector on its own, as update_timetable uses it: a generator built *)
(* from empty lists, generator.timetable = <any entry list>, and then      *)
(* detect_conflicts(), here called up to MaxDetectCalls times on the same  *)
(* instance.  An entry may lack the 'semester' field.                      *)
(***************************************************************************)
EntryUniverse ==
    {[day |-> d, time_slot |-> "S1", subject |-> sb, teacher |-> t, classroom |-> c] :
        d \in Range(DayPool), sb \in Range(SubjectNames),
        t \in Range(TeacherNames), c \in Range(RoomPool)}
    \cup
    {[day |-> d, time_slot |-> "S1", subject |-> sb, teacher |-> t, classroom |-> c,
      semester |-> "A"] :
        d \in Range(DayPool), sb \in Range(SubjectNames),
        t \in Range(TeacherNames), c \in Range(RoomPool)}

CohortPool == <<"A", "B", "C", "D">>

\* one entry per cohort of CohortPool, all at the same (day, slot), over two
\* teachers and three classrooms: up to two teacher clashes and up to one
\* classroom clash with no cohort clash
ClashSlotLists ==
    {[i \in DOMAIN CohortPool |->
        [day |-> "Mon", time_slot |-> "S1",
         subject |-> SubjectNames[((i - 1) % Len(SubjectNames)) + 1],
         teacher |-> ts[i], classroom |-> rs[i], semester |-> CohortPool[i]]] :
        ts \in [DOMAIN CohortPool -> Range(TeacherNames)],
        rs \in [DOMAIN CohortPool -> Range(RoomPool) \cup {"R3"}]}

EntryLists == UNION {[1..k -> EntryUniverse] : k \in 0..MaxEntries} \cup ClashSlotLists

\* TimetableGenerator([], [], [], [], [], []); generator.timetable = timetable
DetInit ==
    /\ teachers = <<>>
    /\ subjects = <<>>
    /\ classrooms = <<>>
    /\ time_slots = <<>>
    /\ days = <<>>
    /\ timetable \in EntryLists
    /\ conflicts = <<>>
    /\ teacher_schedule = EmptyDict
    /\ classroom_schedule = EmptyDict
    /\ cohort_schedule = EmptyDict
    /\ cohort_load = EmptyDict
    /\ si = 0
    /\ placed = 0
    /\ attempts_guard = 0
    /\ detect_calls = 0
    /\ pc = "assigned"
    /\ timetables = EmptyDict
    /\ session_memory = EmptyDict
    /\ request = NoRequest
    /\ response = NoResponse
    /\ parked = IdleLocals

\* generator.detect_conflicts()
DetectCall ==
    /\ pc \in {"assigned", "detected"}
    /\ detect_calls < MaxDetectCalls
    /\ detect_conflicts
    /\ pc' = "detected"
    /\ UNCHANGED <<inputs, timetable, grids, si, placed, attempts_guard, web, parked>>

DetNext == DetectCall

DetSpec == DetInit /\ [][DetNext]_vars

\* generate() is one sequential call: a step that can be taken is taken
FairSpec == Init /\ [][Next]_vars /\ WF_vars(Next)

(***************************************************************************)
(* generate() on the scenario inputs: up to MaxScenarioDays days, one      *)
(* teacher and one classroom with a single subject, or a single slot with  *)
(* two subjects of one cohort.                                             *)
(***************************************************************************)
ScenarioDayNames == <<"Mon", "Tue", "Wed", "Thu", "Fri", "Sat", "Sun">>

ScenarioDays == {SubSeq(ScenarioDayNames, 1, k) : k \in 1..MaxScenarioDays}

\* a teacher of both subject names with no 'availability' key
FreeTeacher(nm) == [name |-> nm, subjects |-> <<"Art", "MATH">>]

\* one teacher, one classroom, one subject asking for at most |days| x |slots|
\* sessions
SingleSubjectInputs ==
    UNION {{[teachers |-> <<FreeTeacher("T1")>>, classrooms |-> <<"R1">>,
             days |-> ds, time_slots |-> ss, subjects |-> <<sb>>] :
               sb \in {[name |-> nm, semester |-> "A", sessions_per_week |-> n] :
                          nm \in Range(SubjectNames), n \in 0..(Len(ds) * Len(ss))}
                      \cup {[name |-> nm, sessions_per_week |-> n] :
                          nm \in Range(SubjectNames), n \in 0..(Len(ds) * Len(ss))}} :
           ds \in ScenarioDays, ss \in Prefixes(SlotPool) \ {<<>>}}

\* a single slot, two subjects of one cohort asking for two sessions each, and
\* teachers and classrooms enough for every free (day, slot)
CohortBlockingInputs ==
    {[teachers |-> ts, classrooms |-> cs, days |-> ds, time_slots |-> <<"S1">>,
      subjects |-> sbs] :
        ts \in {<<FreeTeacher("T1")>>,
                <<[name |-> "T1", subjects |-> <<"art">>], FreeTeacher("T2")>>,
                <<FreeTeacher("T1"), FreeTeacher("T2")>>},
        cs \in Prefixes(RoomPool) \ {<<>>},
        ds \in ScenarioDays,
        sbs \in {<<[name |-> "Math", semester |-> "A", sessions_per_week |-> 2],
                   [name |-> "Art", semester |-> "A", sessions_per_week |-> 2]>>,
                 <<[name |-> "Math", semester |-> "A"],
                   [name |-> "Art", semester |-> "A", sessions_per_week |-> 2]>>,
                 <<[name |-> "Math", sessions_per_week |-> 2],
                   [name |-> "Art", sessions_per_week |-> 2]>>}}

\* three days x two slots, more (day, slot) pairs than suggest_alternatives
\* returns, with one free teacher or a restricted and a free one
WideGridInputs ==
    {[teachers |-> ts, classrooms |-> cs, days |-> SubSeq(ScenarioDayNames, 1, 3),
      time_slots |-> SlotPool, subjects |-> sbs] :
        ts \in {<<FreeTeacher("T1")>>,
                <<[name |-> "T1", subjects |-> <<"Art", "MATH">>,
                   availability |-> ("Mon" :> {"S2"})],
                  [name |-> "T2", subjects |-> <<"art">>]>>},
        cs \in Prefixes(RoomPool) \ {<<>>},
        sbs \in {<<[name |-> "Math", semester |-> "A", sessions_per_week |-> 1]>>,
                 <<[name |-> "Math", semester |-> "A", sessions_per_week |-> 2],
                   [name |-> "Art", semester |-> "A", sessions_per_week |-> 1]>>,
                 <<[name |-> "Math", semester |-> "A", sessions_per_week |-> 2],
                   [name |-> "Art", sessions_per_week |-> 2]>>}}

\* one day, two slots, one classroom; T1 teaches Math at any time, T2 teaches
\* Art and is free at S1 only; the two subjects in either order, in one cohort
\* or in two
PriorityInputs ==
    {[teachers |-> <<[name |-> "T1", subjects |-> <<"Math">>],
                     [name |-> "T2", subjects |-> <<"Art">>,
                      availability |-> ("Mon" :> {"S1"})]>>,
      classrooms |-> <<"R1">>, days |-> <<"Mon">>, time_slots |-> SlotPool,
      subjects |-> sbs] :
        sbs \in UNION {{<<[name |-> "Math", semester |-> "A", sessions_per_week |-> 1],
                          [name |-> "Art", semester |-> h, sessions_per_week |-> 1]>>,
                        <<[name |-> "Art", semester |-> h, sessions_per_week |-> 1],
                          [name |-> "Math", semester |-> "A", sessions_per_week |-> 1]>>} :
                       h \in {"A", "B"}}}

ScenarioInputs ==
    SingleSubjectInputs \cup CohortBlockingInputs \cup WideGridInputs \cup PriorityInputs

\* TimetableGenerator.__init__ on a scenario's lists
ScenConstruct ==
    /\ pc = "start"
    /\ \E inp \in ScenarioInputs :
          /\ teachers' = inp.teachers
          /\ subjects' = inp.subjects
          /\ classrooms' = inp.classrooms
          /\ time_slots' = inp.time_slots
          /\ days' = inp.days
    /\ timetable' = <<>>
    /\ conflicts' = <<>>
    /\ pc' = "constructed"
    /\ UNCHANGED <<grids, si, placed, attempts_guard, detect_calls, web, parked>>

ScenNext == ScenConstruct \/ Generate \/ Attempt \/ ExitWhile \/ Detect

ScenSpec == Init /\ [][ScenNext]_vars

(***************************************************************************)
(* The /generate and /update-timetable handlers over the module stores     *)
(* timetables and session_memory, one request at a time.  A request body   *)
(* is a dict; a key the client left out is not in its DOMAIN.  Requests    *)
(* carry no 'preferences' and no 'semesters'.                              *)
(***************************************************************************)
SessionIds == {"s1", "s2"}

\* datetime.now().isoformat()
Now == "<now>"

\* d[k] = v
Put(d, k, v) == [x \in DOMAIN d \cup {k} |-> IF x = k THEN v ELSE d[x]]

\* d.update(u)
dict_update(d, u) ==
    [x \in DOMAIN d \cup DOMAIN u |-> IF x \in DOMAIN u THEN u[x] ELSE d[x]]

\* request bodies with all five lists: one (day, slot) or two for a subject
\* asking for two sessions, and one with an empty day list
FullBodies ==
    {[teachers |-> <<FreeTeacher("T1")>>,
      subjects |-> <<[name |-> "Math", semester |-> "A", sessions_per_week |-> 2]>>,
      classrooms |-> <<"R1">>, timeSlots |-> <<"S1">>, days |-> ds] :
        ds \in {<<"Mon">>, <<"Mon", "Tue">>, <<>>}}

\* a request body that leaves every list but the subjects to the memory
PartialBodies == {[subjects |-> <<[name |-> "Art", sessions_per_week |-> 1]>>]}

GenerateBodies ==
    FullBodies \cup PartialBodies
    \cup {Put(b, "session_id", sid) : b \in FullBodies \cup PartialBodies, sid \in SessionIds}
    \cup {[session_id |-> sid] : sid \in SessionIds}

\* data.get(key, memory.get(key, []))
resolve(data, memory, key) == Get(data, key, Get(memory, key, <<>>))

\* session_memory.get(existing_session_id, {}) if existing_session_id else {}
memory_of(existing) ==
    IF existing # None THEN Get(session_memory, existing, EmptyDict) ELSE EmptyDict

\* the test of line 274 looking at the teachers alone
missing_required_teachers_only(data, memory) == resolve(data, memory, "teachers") = <<>>

\* not all([teachers, subjects, classrooms, time_slots, days])
missing_required(data, memory) ==
    \E key \in {"teachers", "subjects", "classrooms", "timeSlots", "days"} :
        resolve(data, memory, key) = <<>>

\* the session ids secrets.token_hex(8) can return: any id no store holds
fresh_tokens == SessionIds \ (DOMAIN timetables \cup DOMAIN session_memory)

\* the generator object of a handler is dropped when the handler returns
drop_generator ==
    /\ teachers' = <<>>
    /\ subjects' = <<>>
    /\ classrooms' = <<>>
    /\ time_slots' = <<>>
    /\ days' = <<>>
    /\ timetable' = <<>>
    /\ conflicts' = <<>>
    /\ teacher_schedule' = EmptyDict
    /\ classroom_schedule' = EmptyDict
    /\ cohort_schedule' = EmptyDict
    /\ cohort_load' = EmptyDict
    /\ si' = 0
    /\ placed' = 0
    /\ attempts_guard' = 0
    /\ detect_calls' = 0

\* generate_timetable(), lines 259-277: resolve the lists, reject a request
\* with a missing list, or construct the generator
gen_request(data) ==
    LET existing == Get(data, "session_id", None)
        memory == memory_of(existing)
    IN /\ existing # None \/ fresh_tokens # {}
       /\ IF missing_required(data, memory)
          THEN /\ request' = [kind |-> "generate", data |-> data]
               /\ response' = [status |-> 400, error |-> "Missing required data"]
               /\ UNCHANGED <<inputs, timetable, conflicts, grids, si, placed,
                              attempts_guard, detect_calls, pc>>
          ELSE /\ request' = [kind |-> "generate", data |-> data,
                              session_id |-> existing,
                              semesters |-> resolve(data, memory, "semesters"),
                              preferences |-> Get(data, "preferences",
                                  Get(memory, "preferences", EmptyDict))]
               /\ response' = NoResponse
               /\ teachers' = resolve(data, memory, "teachers")
               /\ subjects' = resolve(data, memory, "subjects")
               /\ classrooms' = resolve(data, memory, "classrooms")
               /\ time_slots' = resolve(data, memory, "timeSlots")
               /\ days' = resolve(data, memory, "days")
               /\ timetable' = <<>>
               /\ conflicts' = <<>>
               /\ pc' = "constructed"
               /\ UNCHANGED <<grids, si, placed, attempts_guard, detect_calls>>

\* a /generate request arrives
GenRequest ==
    /\ pc = "start"
    /\ \E data \in GenerateBodies : gen_request(data)
    /\ UNCHANGED <<timetables, session_memory, parked>>

\* the record stored in timetables[session_id], lines 283-292
stored_result ==
    [timetable |-> timetable, conflicts |-> conflicts,
     metadata |-> [classrooms |-> classrooms, days |-> days,
                   time_slots |-> time_slots, semesters |-> request.semesters]]

\* the record stored in session_memory[session_id], lines 295-304
stored_memory ==
    [teachers |-> teachers, subjects |-> subjects, classrooms |-> classrooms,
     timeSlots |-> time_slots, days |-> days, semesters |-> request.semesters,
     preferences |-> request.preferences, last_updated |-> Now]

\* generate_timetable(), lines 280-312: store the result and the memory under
\* the given or a new session id, and answer
GenStore ==
    /\ pc = "done"
    /\ request.kind = "generate"
    /\ \E session_id \in (IF request.session_id # None THEN {request.session_id}
                          ELSE fresh_tokens) :
          /\ timetables' = Put(timetables, session_id, stored_result)
          /\ session_memory' = Put(session_memory, session_id, stored_memory)
          /\ response' = [status |-> 200, success |-> TRUE, session_id |-> session_id,
                          timetable |-> timetable, conflicts |-> conflicts,
                          memory |-> stored_memory]
    /\ drop_generator
    /\ pc' = "start"
    /\ UNCHANGED <<request, parked>>

\* entries a client sends to /update-timetable
UpdateEntries ==
    <<[day |-> "Mon", time_slot |-> "S1", subject |-> "Math", teacher |-> "T1",
       classroom |-> "R1"],
      [day |-> "Mon", time_slot |-> "S1", subject |-> "Art", teacher |-> "T1",
       classroom |-> "R2", semester |-> "A"],
      [day |-> "Tue", time_slot |-> "S1", subject |-> "Art", teacher |-> "T2",
       classroom |-> "R1"]>>

UpdateLists == {SubSeq(UpdateEntries, i, j) : i \in 1..2, j \in 0..Len(UpdateEntries)}

\* bodies of /update-timetable: a list of entries, with or without a session id
\* and memory updates.  'memory_updates' is given as its items with a value
\* (set) and the keys whose value is None (nulls).
UpdateBodies ==
    {[timetable |-> tt] : tt \in UpdateLists}
    \cup {[timetable |-> tt, session_id |-> sid] : tt \in UpdateLists, sid \in SessionIds}
    \cup {[timetable |-> tt, session_id |-> sid,
           memory_updates |-> [set |-> [days |-> <<"Tue", "Mon">>],
                               nulls |-> {"subjects"}]] :
             tt \in UpdateLists, sid \in SessionIds}

\* {k: v for k, v in mem_updates.items() if v is not None}
non_null(mem_updates) == mem_updates.set

\* data.get('memory_updates', {})
mem_updates_of(data) == Get(data, "memory_updates", [set |-> EmptyDict, nulls |-> {}])

\* update_timetable(), lines 323-334 and 349: answer 404 for an unknown
\* session, or store the entry list and build a generator holding it
update_request(data) ==
    LET session_id == Get(data, "session_id", None)
    IN IF session_id \in DOMAIN timetables
       THEN /\ timetables' = [timetables EXCEPT ![session_id].timetable = data.timetable]
            /\ request' = [kind |-> "update", data |-> data, session_id |-> session_id]
            /\ response' = NoResponse
            /\ timetable' = data.timetable
            /\ conflicts' = <<>>
            /\ pc' = "assigned"
            /\ UNCHANGED <<inputs, grids, si, placed, attempts_guard, detect_calls>>
       ELSE /\ request' = [kind |-> "update", data |-> data, session_id |-> session_id]
            /\ response' = [status |-> 404, error |-> "Session not found"]
            /\ UNCHANGED <<inputs, timetable, conflicts, grids, si, placed,
                           attempts_guard, detect_calls, pc, timetables>>

\* an /update-timetable request arrives
UpdateRequest ==
    /\ pc = "start"
    /\ \E data \in UpdateBodies : update_request(data)
    /\ UNCHANGED <<session_memory, parked>>

\* update_timetable(), line 335: generator.detect_conflicts()
UpdateDetect ==
    /\ pc = "assigned"
    /\ request.kind = "update"
    /\ detect_conflicts
    /\ pc' = "validated"
    /\ UNCHANGED <<inputs, timetable, grids, si, placed, attempts_guard, web, parked>>

\* timetables[session_id]['conflicts'] = generator.conflicts, with the found
\* records appended to the stored ones
store_conflicts_appended(entry, found) == [entry EXCEPT !.conflicts = @ \o found]

\* timetables[session_id]['conflicts'] = generator.conflicts
store_conflicts(entry, found) == [entry EXCEPT !.conflicts = found]

\* lines 339-341: the memory after the request's updates
updated_memory(session_id, mem_updates) ==
    IF session_id \in DOMAIN session_memory
    THEN [session_memory EXCEPT ![session_id] =
             Put(dict_update(@, non_null(mem_updates)), "last_updated", Now)]
    ELSE session_memory

\* update_timetable(), lines 336-347: store the conflicts, apply the memory
\* updates, answer
UpdateStore ==
    /\ pc = "validated"
    /\ timetables' = [timetables EXCEPT ![request.session_id] = store_conflicts(@, conflicts)]
    /\ session_memory' = updated_memory(request.session_id, mem_updates_of(request.data))
    /\ response' = [status |-> 200, success |-> TRUE, conflicts |-> conflicts,
                    memory |-> Get(session_memory', request.session_id, None)]
    /\ drop_generator
    /\ pc' = "start"
    /\ UNCHANGED <<request, parked>>

WebNext ==
    \/ GenRequest \/ Generate \/ Attempt \/ ExitWhile \/ Detect \/ GenStore
    \/ UpdateRequest \/ UpdateDetect \/ UpdateStore

WebSpec == Init /\ [][WebNext]_vars

(***************************************************************************)
(* The remaining handlers: the memory routes, /conflicts and the two       *)
(* exports.  Each is one step.  The session id is a part of the URL.  The  *)
(* rendering of a workbook or a PDF is left out: an export of a stored     *)
(* session reads timetables[session_id] and answers 200 with the file, or  *)
(* 500 when the rendering raises.                                          *)
(***************************************************************************)
\* a request that starts no generator leaves the generator variables alone
no_generator ==
    UNCHANGED <<inputs, timetable, conflicts, grids, si, placed, attempts_guard,
                detect_calls, pc>>

\* get_memory(), lines 472-476
GetMemory ==
    /\ pc = "start"
    /\ \E session_id \in SessionIds :
          /\ request' = [kind |-> "memory_get", session_id |-> session_id]
          /\ response' = IF session_id \in DOMAIN session_memory
                         THEN [status |-> 200, success |-> TRUE,
                               memory |-> session_memory[session_id]]
                         ELSE [status |-> 404, error |-> "Session not found"]
    /\ no_generator
    /\ UNCHANGED <<timetables, session_memory, parked>>

\* bodies of POST /memory/<session_id>, as the items with a value (set) and
\* the keys whose value is None (nulls); `request.json or {}` makes a missing
\* body the first of them
MemoryBodies ==
    {[set |-> EmptyDict, nulls |-> {}],
     [set |-> [days |-> <<"Tue", "Mon">>], nulls |-> {"subjects"}]}

\* lines 481-484: the memory store after the request's update
posted_memory(session_id, data) ==
    Put(session_memory, session_id,
        Put(dict_update(Get(session_memory, session_id, EmptyDict), non_null(data)),
            "last_updated", Now))

\* update_memory(), lines 478-485
UpdateMemory ==
    /\ pc = "start"
    /\ \E session_id \in SessionIds, data \in MemoryBodies :
          /\ request' = [kind |-> "memory_update", session_id |-> session_id,
                         data |-> data]
          /\ session_memory' = posted_memory(session_id, data)
          /\ response' = [status |-> 200, success |-> TRUE,
                          memory |-> session_memory'[session_id]]
    /\ no_generator
    /\ UNCHANGED <<timetables, parked>>

\* del session_memory[session_id], deleting every session's memory
cleared_memory_all(session_id) == EmptyDict

\* del session_memory[session_id]
cleared_memory(session_id) ==
    [x \in DOMAIN session_memory \ {session_id} |-> session_memory[x]]

\* clear_memory(), lines 487-492
ClearMemory ==
    /\ pc = "start"
    /\ \E session_id \in SessionIds :
          /\ request' = [kind |-> "memory_clear", session_id |-> session_id]
          /\ IF session_id \in DOMAIN session_memory
             THEN /\ session_memory' = cleared_memory(session_id)
                  /\ response' = [status |-> 200, success |-> TRUE]
             ELSE /\ session_memory' = session_memory
                  /\ response' = [status |-> 404, error |-> "Session not found"]
    /\ no_generator
    /\ UNCHANGED <<timetables, parked>>

\* get_conflicts(), lines 652-656
GetConflicts ==
    /\ pc = "start"
    /\ \E session_id \in SessionIds :
          /\ request' = [kind |-> "conflicts", session_id |-> session_id]
          /\ response' = IF session_id \in DOMAIN timetables
                         THEN [status |-> 200, success |-> TRUE,
                               conflicts |-> Get(timetables[session_id], "conflicts", <<>>)]
                         ELSE [status |-> 404, error |-> "Session not found"]
    /\ no_generator
    /\ UNCHANGED <<timetables, session_memory, parked>>

\* the answer of an export: 404 for an unknown session, else the file or the
\* 500 of the except clause
export_response(session_id, file) ==
    IF session_id \in DOMAIN timetables
    THEN {[status |-> 200, attachment |-> file], [status |-> 500, error |-> "<str(e)>"]}
    ELSE {[status |-> 404, error |-> "Timetable not found"]}

\* export_excel(), lines 354-469
ExportExcel ==
    /\ pc = "start"
    /\ \E session_id \in SessionIds :
          /\ request' = [kind |-> "export_excel", session_id |-> session_id]
          /\ response' \in export_response(session_id, "xlsx")
    /\ no_generator
    /\ UNCHANGED <<timetables, session_memory, parked>>

\* export_pdf(), lines 494-650
ExportPdf ==
    /\ pc = "start"
    /\ \E session_id \in SessionIds :
          /\ request' = [kind |-> "export_pdf", session_id |-> session_id]
          /\ response' \in export_response(session_id, "pdf")
    /\ no_generator
    /\ UNCHANGED <<timetables, session_memory, parked>>

\* the /generate bodies sent next to the other routes: those naming at most
\* one day
ApiGenerateBodies == {b \in GenerateBodies : Len(Get(b, "days", <<>>)) <= 1}

\* the /update-timetable bodies sent next to the other routes: those carrying
\* the two entries that share a teacher and a (day, slot)
ApiUpdateBodies == {b \in UpdateBodies : b.timetable = SubSeq(UpdateEntries, 1, 2)}

ApiGenRequest ==
    /\ pc = "start"
    /\ \E data \in ApiGenerateBodies : gen_request(data)
    /\ UNCHANGED <<timetables, session_memory, parked>>

ApiUpdateRequest ==
    /\ pc = "start"
    /\ \E data \in ApiUpdateBodies : update_request(data)
    /\ UNCHANGED <<session_memory, parked>>

ApiNext ==
    \/ ApiGenRequest \/ Generate \/ Attempt \/ ExitWhile \/ Detect \/ GenStore
    \/ ApiUpdateRequest \/ UpdateDetect \/ UpdateStore
    \/ GetMemory \/ UpdateMemory \/ ClearMemory \/ GetConflicts
    \/ ExportExcel \/ ExportPdf

ApiSpec == Init /\ [][ApiNext]_vars

(***************************************************************************)
(* Two /generate requests handled by two threads.  The variables of the    *)
(* generator and of the handler are the locals of the thread that runs;    *)
(* parked holds those of the other thread, and Switch hands the processor  *)
(* over between any two steps.  timetables and session_memory are module   *)
(* globals, shared.  The two assignments of lines 283 and 295 are separate *)
(* steps.                                                                  *)
(***************************************************************************)
\* bodies of the concurrent requests: different day lists for the same session
\* id, and one for another session
ConcBodies ==
    {Put(b, "session_id", "s1") : b \in {b \in FullBodies : b.days # <<>>}}
    \cup {Put(b, "session_id", "s2") : b \in {b \in FullBodies : b.days = <<"Mon">>}}

ConcGenRequest ==
    /\ pc = "start"
    /\ \E data \in ConcBodies : gen_request(data)
    /\ UNCHANGED <<timetables, session_memory, parked>>

\* lines 282-292: choose the session id and store the result under it
GenStoreTimetable ==
    /\ pc = "done"
    /\ request.kind = "generate"
    /\ \E session_id \in (IF request.session_id # None THEN {request.session_id}
                          ELSE fresh_tokens) :
          /\ timetables' = Put(timetables, session_id, stored_result)
          /\ request' = Put(request, "stored_as", session_id)
    /\ pc' = "stored"
    /\ UNCHANGED <<inputs, timetable, conflicts, grids, si, placed, attempts_guard,
                   detect_calls, session_memory, response, parked>>

\* lines 295-312: store the memory under the same id, and answer
GenStoreMemory ==
    /\ pc = "stored"
    /\ session_memory' = Put(session_memory, request.stored_as, stored_memory)
    /\ response' = [status |-> 200, success |-> TRUE, session_id |-> request.stored_as,
                    timetable |-> timetable, conflicts |-> conflicts,
                    memory |-> stored_memory]
    /\ drop_generator
    /\ pc' = "start"
    /\ UNCHANGED <<timetables, request, parked>>

\* the locals of the running thread
locals ==
    [teachers |-> teachers, subjects |-> subjects, classrooms |-> classrooms,
     time_slots |-> time_slots, days |-> days, timetable |-> timetable,
     conflicts |-> conflicts, teacher_schedule |-> teacher_schedule,
     classroom_schedule |-> classroom_schedule, cohort_schedule |-> cohort_schedule,
     cohort_load |-> cohort_load, si |-> si, placed |-> placed,
     attempts_guard |-> attempts_guard, detect_calls |-> detect_calls,
     pc |-> pc, request |-> request, response |-> response]

\* grids that are one set for all runs: the resumed thread finds them as the
\* other thread left them
resumed_grids_shared(p) ==
    <<teacher_schedule, classroom_schedule, cohort_schedule, cohort_load>>

\* the grids the resumed thread finds: its own, locals of its generate() call
resumed_grids(p) ==
    <<p.teacher_schedule, p.classroom_schedule, p.cohort_schedule, p.cohort_load>>

\* the running thread is suspended and the other one resumed
Switch ==
    /\ parked' = locals
    /\ teachers' = parked.teachers
    /\ subjects' = parked.subjects
    /\ classrooms' = parked.classrooms
    /\ time_slots' = parked.time_slots
    /\ days' = parked.days
    /\ timetable' = parked.timetable
    /\ conflicts' = parked.conflicts
    /\ teacher_schedule' = resumed_grids(parked)[1]
    /\ classroom_schedule' = resumed_grids(parked)[2]
    /\ cohort_schedule' = resumed_grids(parked)[3]
    /\ cohort_load' = resumed_grids(parked)[4]
    /\ si' = parked.si
    /\ placed' = parked.placed
    /\ attempts_guard' = parked.attempts_guard
    /\ detect_calls' = parked.detect_calls
    /\ pc' = parked.pc
    /\ request' = parked.request
    /\ response' = parked.response
    /\ UNCHANGED <<timetables, session_memory>>

ConcNext ==
    \/ ConcGenRequest \/ Generate \/ Attempt \/ ExitWhile \/ Detect
    \/ GenStoreTimetable \/ GenStoreMemory \/ Switch

ConcSpec == Init /\ [][ConcNext]_vars

(***************************************************************************)
(* Properties.                                                             *)
(***************************************************************************)
\* the multiset of the elements of a list
BagOf(seq) == [x \in Range(seq) |-> Cardinality({i \in DOMAIN seq : seq[i] = x})]

\* a record of self.conflicts is an unplaced-sessions record
IsUnplaced(r) == "missing_sessions" \in DOMAIN r

\* the number of timetable entries of a subject
PlacedFor(subject) ==
    Cardinality({i \in DOMAIN timetable : timetable[i].subject = subject.name})

\* the unplaced-sessions records of a subject
UnplacedOf(subject) ==
    {k \in DOMAIN conflicts :
        IsUnplaced(conflicts[k]) /\ conflicts[k].subjects = <<subject.name>>}

SameSlot(e1, e2) == e1.day = e2.day /\ e1.time_slot = e2.time_slot

\* C1: no double-booking.  In every state of a run, two different entries of
\* the timetable at the same (day, time_slot) differ in teacher, in classroom
\* and in cohort; and in the returned result every record of the conflicts list
\* is an unplaced-sessions record (the final detect_conflicts added no clash).
C1_NoDoubleBooking ==
    /\ \A i, j \in DOMAIN timetable :
          (i # j /\ SameSlot(timetable[i], timetable[j])) =>
              /\ timetable[i].teacher # timetable[j].teacher
              /\ timetable[i].classroom # timetable[j].classroom
              /\ timetable[i].semester # timetable[j].semester
    /\ pc = "done" => \A k \in DOMAIN conflicts : IsUnplaced(conflicts[k])

\* a returned timetable with two entries at the same (day, time_slot)
C1_Witness ==
    /\ pc = "done"
    /\ \E i, j \in DOMAIN timetable : i # j /\ SameSlot(timetable[i], timetable[j])

\* C2: session count bound.  In the returned result, every subject with n
\* required sessions has at most n entries; with fewer than n it has exactly one
\* unplaced-sessions record, whose missing_sessions is n minus the number
\* placed; with exactly n it has no unplaced-sessions record.
C2_SessionCountBound ==
    pc = "done" =>
        \A i \in DOMAIN subjects :
            LET n == SessionsOf(subjects[i])
                cnt == PlacedFor(subjects[i])
                recs == UnplacedOf(subjects[i])
            IN /\ cnt <= n
               /\ cnt < n => /\ Cardinality(recs) = 1
                             /\ \A k \in recs : conflicts[k].missing_sessions = n - cnt
               /\ cnt = n => recs = {}

\* a returned result with one subject partly placed and another fully placed
C2_Witness ==
    /\ pc = "done"
    /\ \E i \in DOMAIN subjects :
          0 < PlacedFor(subjects[i]) /\ PlacedFor(subjects[i]) < SessionsOf(subjects[i])
    /\ \E i \in DOMAIN subjects :
          0 < PlacedFor(subjects[i]) /\ PlacedFor(subjects[i]) = SessionsOf(subjects[i])

\* C3: termination.  Every run of generate() reaches its return statement, with
\* a timetable and a conflicts list, whatever the input.
C3_Termination == <>(pc = "done")

\* a run that returned although one subject could not be placed at all and
\* another only in part
C3_Witness ==
    /\ pc = "done"
    /\ \E i \in DOMAIN subjects : PlacedFor(subjects[i]) = 0
    /\ \E i \in DOMAIN subjects :
          0 < PlacedFor(subjects[i]) /\ PlacedFor(subjects[i]) < SessionsOf(subjects[i])

\* the teacher record an entry names
TeacherOf(e) == CHOOSE t \in Range(teachers) : t.name = e.teacher

\* C4: teacher availability, open with exceptions.  Every entry's teacher has
\* an availability map that either has no key for the entry's day or lists the
\* entry's slot under that day.
C4_AvailabilityRespected ==
    \A i \in DOMAIN timetable :
        LET e == timetable[i]
            t == TeacherOf(e)
        IN \/ "availability" \notin DOMAIN t
           \/ e.day \notin DOMAIN t.availability
           \/ e.time_slot \in t.availability[e.day]

\* a returned timetable that uses a restricted teacher on a restricted day (at
\* a listed slot) and on a day the map has no key for
C4_Witness ==
    /\ pc = "done"
    /\ \E i, j \in DOMAIN timetable :
          /\ timetable[i].teacher = timetable[j].teacher
          /\ "availability" \in DOMAIN TeacherOf(timetable[i])
          /\ timetable[i].day \in DOMAIN TeacherOf(timetable[i]).availability
          /\ timetable[j].day \notin DOMAIN TeacherOf(timetable[j]).availability

\* C5: teacher eligibility.  Every entry names a teacher of the input whose
\* subject list contains the entry's subject up to letter case, a classroom of
\* the input, a day and a slot of the input, and the cohort of the subject it
\* was placed for ('General' when the subject has none).
C5_Eligibility ==
    \A i \in DOMAIN timetable :
        LET e == timetable[i]
        IN /\ \E t \in Range(teachers) :
                 /\ t.name = e.teacher
                 /\ \E k \in DOMAIN t.subjects : lower(t.subjects[k]) = lower(e.subject)
           /\ e.classroom \in Range(classrooms)
           /\ e.day \in Range(days)
           /\ e.time_slot \in Range(time_slots)
           /\ \E sb \in Range(subjects) :
                 /\ sb.name = e.subject
                 /\ e.semester = (IF "semester" \in DOMAIN sb THEN sb.semester
                                  ELSE "General")

\* a returned timetable with an entry whose teacher lists the subject in another
\* letter case only, and an entry of a subject without a cohort
C5_Witness ==
    /\ pc = "done"
    /\ \E i \in DOMAIN timetable :
          timetable[i].subject \notin Range(TeacherOf(timetable[i]).subjects)
    /\ \E i \in DOMAIN timetable : timetable[i].semester = "General"


Kinds == {"teacher", "classroom", "cohort"}

\* the teacher, classroom or cohort of an entry
EntityOf(kind, e) ==
    CASE kind = "teacher" -> e.teacher
      [] kind = "classroom" -> e.classroom
      [] kind = "cohort" -> (IF "semester" \in DOMAIN e THEN e.semester ELSE "General")

\* the entries of tt at (day, slot) that have entity x of that kind
Sharing(tt, day, slot, kind, x) ==
    {i \in DOMAIN tt :
        tt[i].day = day /\ tt[i].time_slot = slot /\ EntityOf(kind, tt[i]) = x}

\* every (day, slot, kind, entity) that more than one entry of tt has
Clashes(tt) ==
    {q \in {<<tt[i].day, tt[i].time_slot, kind, EntityOf(kind, tt[i])>> :
               i \in DOMAIN tt, kind \in Kinds} :
        Cardinality(Sharing(tt, q[1], q[2], q[3], q[4])) > 1}

\* the (day, slot, kind, entity) a clash record reports
ClashOf(r) ==
    CASE r.type = "teacher" -> <<r.day, r.time_slot, "teacher", r.teacher>>
      [] r.type = "classroom" -> <<r.day, r.time_slot, "classroom", r.classroom>>
      [] r.type = "student" -> <<r.day, r.time_slot, "cohort", r.semester>>

\* the multiset of subject names of the entries of tt with indices in ix
SubjectBag(tt, ix) ==
    [sb \in {tt[i].subject : i \in ix} |->
        Cardinality({i \in ix : tt[i].subject = sb})]

\* C6: conflict detector exactness.  After one detect_conflicts() on any entry
\* list, there is exactly one record for each (day, slot, kind, entity) that
\* more than one entry has, every record is such a clash record, and a record
\* lists the subject names of exactly the entries that share its clash.
C6_DetectorExact ==
    detect_calls = 1 =>
        /\ \A q \in Clashes(timetable) :
              Cardinality({k \in DOMAIN conflicts : ClashOf(conflicts[k]) = q}) = 1
        /\ \A k \in DOMAIN conflicts :
              LET q == ClashOf(conflicts[k])
              IN /\ ~IsUnplaced(conflicts[k])
                 /\ q \in Clashes(timetable)
                 /\ BagOf(conflicts[k].subjects) =
                        SubjectBag(timetable, Sharing(timetable, q[1], q[2], q[3], q[4]))

\* two entries with the same teacher, day and slot, different classrooms and
\* different cohorts: one teacher record listing both subjects, nothing else
C6_Witness ==
    /\ detect_calls = 1
    /\ Len(timetable) = 2
    /\ SameSlot(timetable[1], timetable[2])
    /\ timetable[1].teacher = timetable[2].teacher
    /\ timetable[1].classroom # timetable[2].classroom
    /\ timetable[1].subject # timetable[2].subject
    /\ Len(conflicts) = 1
    /\ conflicts[1].type = "teacher"
    /\ conflicts[1].subjects = <<timetable[1].subject, timetable[2].subject>>

\* the multiset of clashes a list of clash records reports
ClashBag(recs) ==
    BagOf([k \in DOMAIN recs |-> <<ClashOf(recs[k]), BagOf(recs[k].subjects)>>])

\* tt reordered by the permutation p of its indices
Permuted(tt, p) == [i \in DOMAIN tt |-> tt[p[i]]]

\* C7: detector symmetry.  The detector reports the same multiset of clashes
\* (kind, entity, day, slot, multiset of subject names) on every permutation of
\* the entry list as on the list itself.
C7_DetectorSymmetry ==
    detect_calls = 1 =>
        \A p \in Permutations(DOMAIN timetable) :
            ClashBag(clash_records(Permuted(timetable, p))) = ClashBag(conflicts)

\* a list with clashes, one permutation of which gives the records in another
\* order or with the subject names in another order
C7_Witness ==
    /\ detect_calls = 1
    /\ conflicts # <<>>
    /\ \E p \in Permutations(DOMAIN timetable) :
          clash_records(Permuted(timetable, p)) # conflicts

\* C8: idempotence of detection, as claimed.  A second detect_conflicts() call
\* on the same instance, the timetable unchanged, leaves self.conflicts as the
\* first call left it.
C8_SecondCallKeepsConflicts ==
    [][(detect_calls >= 1 /\ detect_calls' = detect_calls + 1)
          => conflicts' = conflicts]_vars

\* C9: suggestion validity.  In every grid state of a run, every string that
\* suggest_alternatives returns for a subject is "day @ slot" for a day and a
\* slot at which can_place holds for some teacher of the subject and some
\* classroom.
C9_SuggestionValidity ==
    pc \in {"while", "detect", "done"} =>
        \A i \in DOMAIN subjects :
            LET found == suggest_alternatives(subjects[i], MaxSuggestions)
            IN \A k \in DOMAIN found :
                  \E d \in Range(days), sl \in Range(time_slots) :
                      /\ found[k] = suggestion_text(d, sl)
                      /\ \E t \in Range(teachers), c \in Range(classrooms) :
                            /\ teaches(t, subjects[i])
                            /\ can_place(subjects[i], t, c, d, sl)

\* a partly filled grid on which a subject gets some (day, slot) pairs suggested
\* and others not
C9_Witness ==
    /\ pc = "while"
    /\ timetable # <<>>
    /\ \E i \in DOMAIN subjects :
          /\ suggest_alternatives(subjects[i], MaxSuggestions) # <<>>
          /\ Len(suggest_alternatives(subjects[i], MaxSuggestions)) < Len(DaySlotPairs)

\* a subject that asks for a session and has no teacher, or no day, slot or
\* classroom to be placed in
Degenerate(sb) ==
    /\ SessionsOf(sb) >= 1
    /\ \/ \A t \in Range(teachers) :
             \A k \in DOMAIN t.subjects : lower(t.subjects[k]) # lower(sb.name)
       \/ days = <<>>
       \/ time_slots = <<>>
       \/ classrooms = <<>>

\* C10: graceful degradation.  generate() raises no error; a subject with n >= 1
\* sessions and no matching teacher (or with an empty day, slot or classroom
\* list) never gets an entry, and once its loop is over it has exactly one
\* unplaced-sessions record, with missing_sessions = n and no suggestion; the
\* run goes on to every other subject.
C10_GracefulDegradation ==
    /\ pc # "raised"
    /\ pc = "done" => si = Len(subjects) + 1
    /\ \A i \in DOMAIN subjects :
          Degenerate(subjects[i]) =>
              /\ PlacedFor(subjects[i]) = 0
              /\ si > i =>
                    /\ Cardinality(UnplacedOf(subjects[i])) = 1
                    /\ \A k \in UnplacedOf(subjects[i]) :
                          /\ conflicts[k].missing_sessions = SessionsOf(subjects[i])
                          /\ conflicts[k].suggestions = <<>>

\* a returned result whose first subject has no teacher and whose second
\* subject was placed
C10_Witness ==
    /\ pc = "done"
    /\ \E i, j \in DOMAIN subjects :
          /\ i < j
          /\ Degenerate(subjects[i])
          /\ days # <<>> /\ time_slots # <<>> /\ classrooms # <<>>
          /\ PlacedFor(subjects[j]) > 0

\* one teacher who teaches the one subject and has no availability map, one
\* classroom, and no more sessions asked for than there are (day, slot) pairs
SingleSubjectScenario ==
    /\ Len(teachers) = 1 /\ Len(classrooms) = 1 /\ Len(subjects) = 1
    /\ "availability" \notin DOMAIN teachers[1]
    /\ \E k \in DOMAIN teachers[1].subjects :
          lower(teachers[1].subjects[k]) = lower(subjects[1].name)
    /\ SessionsOf(subjects[1]) >= 0
    /\ SessionsOf(subjects[1]) <= Len(days) * Len(time_slots)

\* C11: unconstrained single-subject scenario.  With one teacher of the
\* subject without availability restriction, one classroom and one subject
\* asking for n <= |days| x |slots| sessions, generate() returns exactly n
\* entries and an empty conflicts list, whatever the shuffles.
C11_SingleSubjectPlaced ==
    (pc = "done" /\ SingleSubjectScenario) =>
        /\ Len(timetable) = SessionsOf(subjects[1])
        /\ conflicts = <<>>

\* the instance of the specification: 5 days x 2 slots, 3 sessions
C11_Witness ==
    /\ pc = "done"
    /\ SingleSubjectScenario
    /\ Len(days) = 5 /\ Len(time_slots) = 2
    /\ SessionsOf(subjects[1]) = 3
    /\ Len(timetable) = 3
    /\ conflicts = <<>>

\* a single slot, two subjects of one cohort asking for two sessions each, no
\* availability map, a teacher for each subject and a classroom
CohortBlockingScenario ==
    /\ Len(time_slots) = 1 /\ Len(subjects) = 2 /\ classrooms # <<>>
    /\ SemesterOf(subjects[1]) = SemesterOf(subjects[2])
    /\ \A i \in DOMAIN subjects :
          /\ SessionsOf(subjects[i]) = 2
          /\ \E t \in Range(teachers) : \E k \in DOMAIN t.subjects :
                lower(t.subjects[k]) = lower(subjects[i].name)
    /\ \A t \in Range(teachers) : "availability" \notin DOMAIN t

RECURSIVE SumMissing(_)
\* the sum of missing_sessions over the unplaced-sessions records of a list
SumMissing(recs) ==
    IF recs = <<>> THEN 0
    ELSE (IF IsUnplaced(Head(recs)) THEN Head(recs).missing_sessions ELSE 0)
         + SumMissing(Tail(recs))

Min(a, b) == IF a <= b THEN a ELSE b

\* C12: cohort-blocking scenario.  With a single slot, D days and two subjects
\* of one cohort asking for 2 sessions each, the returned timetable has at most
\* one entry of the cohort per day, min(4, D) entries in all, and the
\* missing_sessions of the unplaced-sessions records sum to 4 minus the number
\* of entries.
C12_CohortBlocking ==
    (pc = "done" /\ CohortBlockingScenario) =>
        /\ \A d \in Range(days) :
              Cardinality({i \in DOMAIN timetable : timetable[i].day = d}) <= 1
        /\ Len(timetable) = Min(4, Len(days))
        /\ SumMissing(conflicts) = 4 - Len(timetable)

\* three days: the first subject placed twice, the second once and reported
\* one session short
C12_Witness ==
    /\ pc = "done"
    /\ CohortBlockingScenario
    /\ Len(days) = 3
    /\ Len(timetable) = 3
    /\ Len(conflicts) = 1
    /\ conflicts[1].missing_sessions = 1
    /\ conflicts[1].subjects = <<subjects[2].name>>

\* C13: validation result of the update path.  After a successful
\* /update-timetable request for a known session, the conflicts stored for the
\* session and the conflicts returned are the detector's records for the
\* supplied list alone, none of them an unplaced-sessions record, and the
\* stored timetable is the supplied list.
C13_UpdateValidates ==
    (pc = "start" /\ request.kind = "update" /\ response.status = 200) =>
        LET stored == timetables[request.session_id]
        IN /\ stored.timetable = request.data.timetable
           /\ stored.conflicts = clash_records(request.data.timetable)
           /\ response.conflicts = stored.conflicts
           /\ \A k \in DOMAIN stored.conflicts : ~IsUnplaced(stored.conflicts[k])

\* an update with a teacher clash for a session generated on one (day, slot)
\* with two sessions asked for, whose generation stored an unplaced-sessions
\* record
C13_Witness ==
    /\ pc = "start" /\ request.kind = "update" /\ response.status = 200
    /\ session_memory[request.session_id].days = <<"Mon">>
    /\ session_memory[request.session_id].subjects[1].sessions_per_week = 2
    /\ Len(timetables[request.session_id].conflicts) = 1
    /\ timetables[request.session_id].conflicts[1].type = "teacher"

\* the grids exist: generate() is past line 81
GridsBuilt == pc \in {"while", "detect", "done"}

\* the cohort of a subject: its 'semester', 'General' when it has none
CohortOf(sb) == IF "semester" \in DOMAIN sb THEN sb.semester ELSE "General"

\* the teacher's availability map omits the day or lists the slot for it
AvailableAt(t, d, sl) ==
    \/ "availability" \notin DOMAIN t
    \/ d \notin DOMAIN t.availability
    \/ sl \in t.availability[d]

\* teacher, classroom and the subject's cohort are unoccupied at (d, sl) and
\* the teacher is available there
Feasible(sb, t, c, d, sl) ==
    /\ ~teacher_schedule[t.name][d][sl]
    /\ ~classroom_schedule[c][d][sl]
    /\ ~cohort_schedule[CohortOf(sb)][d][sl]
    /\ AvailableAt(t, d, sl)

\* can_place agrees with Feasible on every argument tuple
CanPlaceExact ==
    GridsBuilt =>
        \A sb \in Range(subjects), t \in Range(teachers), c \in Range(classrooms),
           d \in Range(days), sl \in Range(time_slots) :
            can_place(sb, t, c, d, sl) <=> Feasible(sb, t, c, d, sl)

\* C14: feasibility check.  In every grid state can_place(subject, teacher,
\* classroom, day, slot) is true exactly when the teacher grid, the classroom
\* grid and the grid of the subject's cohort are unoccupied at (day, slot) and
\* the teacher's availability omits the day or includes the slot; and an
\* attempt whose can_place calls all return false leaves every grid, the load
\* counters and the timetable as they were.
C14_FeasibilityCheck ==
    /\ []CanPlaceExact
    /\ [][(pc = "while" /\ placed' = placed) => UNCHANGED <<timetable, grids>>]_vars

\* a grid state where can_place is true for one argument tuple, false for
\* another for the cohort grid alone, and false for a third for the teacher's
\* availability alone
C14_Witness ==
    /\ pc = "while"
    /\ \E sb \in Range(subjects), t \in Range(teachers), c \in Range(classrooms),
          d \in Range(days), sl \in Range(time_slots) : can_place(sb, t, c, d, sl)
    /\ \E sb \in Range(subjects), t \in Range(teachers), c \in Range(classrooms),
          d \in Range(days), sl \in Range(time_slots) :
            /\ ~can_place(sb, t, c, d, sl)
            /\ ~teacher_schedule[t.name][d][sl]
            /\ ~classroom_schedule[c][d][sl]
            /\ AvailableAt(t, d, sl)
    /\ \E sb \in Range(subjects), t \in Range(teachers), c \in Range(classrooms),
          d \in Range(days), sl \in Range(time_slots) :
            /\ ~can_place(sb, t, c, d, sl)
            /\ ~teacher_schedule[t.name][d][sl]
            /\ ~classroom_schedule[c][d][sl]
            /\ ~cohort_schedule[CohortOf(sb)][d][sl]

\* the position of an element in a list of distinct elements
IndexIn(seq, x) == CHOOSE i \in DOMAIN seq : seq[i] = x

\* 10 x the number of entries already placed for the cohort on the day
DayScore(cohort, d) ==
    10 * Cardinality({i \in DOMAIN timetable :
                         timetable[i].semester = cohort /\ timetable[i].day = d})

\* (d1, s1) comes before (d2, s2) in ascending score for the cohort, equal
\* scores in day-major, slot-minor input order
RankedBefore(cohort, d1, s1, d2, s2) ==
    \/ DayScore(cohort, d1) < DayScore(cohort, d2)
    \/ /\ DayScore(cohort, d1) = DayScore(cohort, d2)
       /\ \/ IndexIn(days, d1) < IndexIn(days, d2)
          \/ d1 = d2 /\ IndexIn(time_slots, s1) < IndexIn(time_slots, s2)

\* some teacher of the subject and some classroom pass the feasibility check
FeasiblePair(sb, d, sl) ==
    \E t \in Range(teachers), c \in Range(classrooms) :
        /\ \E k \in DOMAIN t.subjects : lower(t.subjects[k]) = lower(sb.name)
        /\ Feasible(sb, t, c, d, sl)

\* C15: ranked slot choice.  Every commit takes the first (day, slot), in
\* ascending order of 10 x (entries of the subject's cohort on the day) with
\* ties in day-major, slot-minor input order, that is feasible for some
\* teacher of the subject and some classroom in the state before the attempt;
\* no earlier pair is feasible, so the pair is the same for every shuffle.
C15_RankedSlotChoice ==
    [][(pc = "while" /\ Len(timetable') = Len(timetable) + 1) =>
          LET sb == subjects[si]
              entry == timetable'[Len(timetable')]
          IN /\ entry.subject = sb.name
             /\ FeasiblePair(sb, entry.day, entry.time_slot)
             /\ \A d \in Range(days), sl \in Range(time_slots) :
                   RankedBefore(CohortOf(sb), d, sl, entry.day, entry.time_slot)
                       => ~FeasiblePair(sb, d, sl)]_vars

\* the second session of a cohort went to the next day although a slot of the
\* first day was still free
C15_Witness ==
    /\ Len(timetable) >= 2
    /\ Len(days) = 2 /\ Len(time_slots) = 2
    /\ timetable[1].semester = timetable[2].semester
    /\ timetable[1].day = days[1] /\ timetable[1].time_slot = time_slots[1]
    /\ timetable[2].day = days[2] /\ timetable[2].time_slot = time_slots[1]
    /\ ~teacher_schedule[timetable[2].teacher][days[1]][time_slots[2]]
    /\ ~classroom_schedule[timetable[2].classroom][days[1]][time_slots[2]]
    /\ Len(timetable) = 2 => ~cohort_schedule[timetable[2].semester][days[1]][time_slots[2]]

\* the placement loop of subjects[i] is over and left it short
EndedShort(i) == si > i /\ PlacedFor(subjects[i]) < SessionsOf(subjects[i])

\* C16: greedy maximality.  From the moment a subject's placement loop ends
\* with fewer entries than it asked for, through the end of the run, no (day,
\* slot, teacher of the subject, classroom) passes the feasibility check for
\* that subject.
C16_GreedyMaximality ==
    GridsBuilt =>
        \A i \in DOMAIN subjects :
            EndedShort(i) =>
                \A d \in Range(days), sl \in Range(time_slots) :
                    ~FeasiblePair(subjects[i], d, sl)

\* a returned result with a subject left short although some (day, slot) has
\* its cohort and a classroom unoccupied: no teacher of the subject is free
\* and available there
C16_Witness ==
    /\ pc = "done"
    /\ timetable # <<>>
    /\ \E i \in DOMAIN subjects :
          /\ EndedShort(i)
          /\ \E t \in Range(teachers) : teaches(t, subjects[i])
          /\ \E d \in Range(days), sl \in Range(time_slots), c \in Range(classrooms) :
                /\ ~cohort_schedule[CohortOf(subjects[i])][d][sl]
                /\ ~classroom_schedule[c][d][sl]

Max(a, b) == IF a >= b THEN a ELSE b

\* the attempts made for one subject, n sessions asked for and p placed, are
\* within n x 300 and within max(n, 0), and are p when the subject is fully
\* placed and p + 1, the last one having committed nothing, when it is short
AttemptsAccount(attempts, n, p) ==
    /\ attempts <= n * 300
    /\ attempts <= Max(n, 0)
    /\ attempts = (IF p < n THEN p + 1 ELSE p)

\* C17: attempt budget.  The attempts made for a subject never exceed n x 300;
\* every attempt commits exactly one entry or is the last one for the subject,
\* so the attempts never exceed max(n, 0) and a loop that ends short ended on
\* an attempt that committed nothing, not on the budget.
C17_AttemptBudget ==
    /\ pc = "while" =>
          /\ attempts_guard = placed
          /\ attempts_guard <= Max(SessionsOf(subjects[si]), 0)
          /\ attempts_guard <= SessionsOf(subjects[si]) * 300
    /\ (pc \in {"detect", "done"} /\ subjects # <<>>) =>
          AttemptsAccount(attempts_guard,
                          SessionsOf(subjects[Len(subjects)]),
                          PlacedFor(subjects[Len(subjects)]))

\* the last subject asked for two sessions: one attempt committed, the second
\* found nothing and ended the loop
C17_Witness ==
    /\ pc = "done"
    /\ subjects # <<>>
    /\ SessionsOf(subjects[Len(subjects)]) = 2
    /\ PlacedFor(subjects[Len(subjects)]) = 1
    /\ attempts_guard = 2

\* every (day, slot) in day-major, slot-minor input order
PairsInOrder ==
    [k \in 1..(Len(days) * Len(time_slots)) |->
        <<days[((k - 1) \div Len(time_slots)) + 1],
          time_slots[((k - 1) % Len(time_slots)) + 1]>>]

\* some teacher teaches the subject, is unoccupied and available at (d, sl),
\* some classroom is unoccupied there, and so is the subject's cohort
Qualifies(sb, d, sl) ==
    /\ \E t \in Range(teachers) :
          /\ \E k \in DOMAIN t.subjects : lower(t.subjects[k]) = lower(sb.name)
          /\ ~teacher_schedule[t.name][d][sl]
          /\ AvailableAt(t, d, sl)
    /\ \E c \in Range(classrooms) : ~classroom_schedule[c][d][sl]
    /\ ~cohort_schedule[CohortOf(sb)][d][sl]

\* the qualifying pairs of a subject, in input order
QualifyingPairs(sb) ==
    LET Q(p) == Qualifies(sb, p[1], p[2])
    IN SelectSeq(PairsInOrder, Q)

\* "day @ slot" for the first min(cap, k) of the k qualifying pairs
FirstQualifying(sb, cap) ==
    [i \in 1..Min(cap, Len(QualifyingPairs(sb))) |->
        QualifyingPairs(sb)[i][1] \o " @ " \o QualifyingPairs(sb)[i][2]]

\* suggest_alternatives returns FirstQualifying for every subject and cap
SuggesterExact ==
    GridsBuilt =>
        \A sb \in Range(subjects), cap \in 1..MaxSuggestions :
            /\ suggest_alternatives(sb, cap) = FirstQualifying(sb, cap)
            /\ Len(suggest_alternatives(sb, cap)) <= cap

\* C18: alternative suggester result.  In every grid state
\* suggest_alternatives(subject, cap) is the first min(cap, k) of the k
\* qualifying (day, slot) pairs in day-major, slot-minor input order, never
\* more than cap (5 by default) items; and the step that calls it, the one
\* that appends an unplaced-sessions record, leaves the timetable, the grids
\* and the load counters as they were.
C18_SuggesterResult ==
    /\ []SuggesterExact
    /\ [][(pc = "while" /\ Len(conflicts') > Len(conflicts))
             => UNCHANGED <<timetable, grids>>]_vars

\* six qualifying pairs and the default cap: the first five are returned
C18_Witness ==
    /\ GridsBuilt
    /\ \E sb \in Range(subjects) :
          /\ Len(QualifyingPairs(sb)) = 6
          /\ Len(suggest_alternatives(sb, MaxSuggestions)) = 5
          /\ suggest_alternatives(sb, MaxSuggestions)[5] = "Wed @ S1"

\* C19: suggestions in generated results are always empty.  Every
\* unplaced-sessions record that generate() emits has an empty suggestions
\* list: the suggester runs on the grid state in which a full attempt has just
\* found nothing feasible.
C19_SuggestionsEmpty ==
    \A k \in DOMAIN conflicts :
        IsUnplaced(conflicts[k]) => conflicts[k].suggestions = <<>>

\* a returned result with an unplaced-sessions record for a subject that has a
\* teacher and was placed in part, some (day, slot) still unoccupied for its
\* cohort
C19_Witness ==
    /\ pc = "done"
    /\ \E i \in DOMAIN subjects :
          /\ PlacedFor(subjects[i]) > 0
          /\ UnplacedOf(subjects[i]) # {}
          /\ \E d \in Range(days), sl \in Range(time_slots) :
                ~cohort_schedule[CohortOf(subjects[i])][d][sl]

\* the timetable's entries at (day, slot) whose field `field` is `key`
EntriesAt(field, key, d, sl) ==
    {k \in DOMAIN timetable :
        /\ timetable[k][field] = key
        /\ timetable[k].day = d
        /\ timetable[k].time_slot = sl}

\* the grid's flags are true exactly at the cells the timetable has an entry
\* for, and every entry lies in a cell of the grid
GridMirrors(grid, field) ==
    /\ \A key \in DOMAIN grid :
          \A d \in DOMAIN grid[key] :
             \A sl \in DOMAIN grid[key][d] :
                grid[key][d][sl] <=> (EntriesAt(field, key, d, sl) # {})
    /\ \A k \in DOMAIN timetable :
          /\ timetable[k][field] \in DOMAIN grid
          /\ timetable[k].day \in DOMAIN grid[timetable[k][field]]
          /\ timetable[k].time_slot \in DOMAIN grid[timetable[k][field]][timetable[k].day]

\* cohort_load.get(semester, {}).get(day, 0)
LoadOf(load, semester, d) == Get(Get(load, semester, EmptyDict), d, 0)

\* the load counter of each (cohort, day) is the number of entries with that
\* cohort and day, and there is no counter for another cohort or day
LoadCounts ==
    /\ \A h \in DOMAIN cohort_schedule :
          \A d \in Range(days) :
             LoadOf(cohort_load, h, d) =
                Cardinality({k \in DOMAIN timetable :
                                timetable[k].semester = h /\ timetable[k].day = d})
    /\ \A h \in DOMAIN cohort_load :
          /\ h \in DOMAIN cohort_schedule
          /\ DOMAIN cohort_load[h] \subseteq Range(days)

BookkeepingConsistent ==
    GridsBuilt =>
        /\ GridMirrors(teacher_schedule, "teacher")
        /\ GridMirrors(classroom_schedule, "classroom")
        /\ GridMirrors(cohort_schedule, "semester")
        /\ LoadCounts

\* no flag of the grid goes back to free in the step
GridKept(grid, grid2) ==
    \A key \in DOMAIN grid :
       \A d \in DOMAIN grid[key] :
          \A sl \in DOMAIN grid[key][d] :
             grid[key][d][sl] => grid2[key][d][sl]

\* a step inside one run keeps the timetable as a prefix, every occupied flag
\* and every load counter
NothingLost ==
    (GridsBuilt /\ GridsBuilt') =>
        /\ Len(timetable') >= Len(timetable)
        /\ SubSeq(timetable', 1, Len(timetable)) = timetable
        /\ GridKept(teacher_schedule, teacher_schedule')
        /\ GridKept(classroom_schedule, classroom_schedule')
        /\ GridKept(cohort_schedule, cohort_schedule')
        /\ \A h \in DOMAIN cohort_schedule :
              \A d \in Range(days) :
                 LoadOf(cohort_load', h, d) >= LoadOf(cohort_load, h, d)

\* the step that enters generate() leaves an empty timetable, all-free grids
\* and no load counter
StartsFree ==
    (pc = "constructed" /\ pc' # pc) =>
        /\ timetable' = <<>>
        /\ cohort_load' = EmptyDict
        /\ \A n \in DOMAIN teacher_schedule' :
              \A d \in Range(days), sl \in Range(time_slots) :
                 ~teacher_schedule'[n][d][sl]
        /\ \A c \in DOMAIN classroom_schedule' :
              \A d \in Range(days), sl \in Range(time_slots) :
                 ~classroom_schedule'[c][d][sl]
        /\ \A h \in DOMAIN cohort_schedule' :
              \A d \in Range(days), sl \in Range(time_slots) :
                 ~cohort_schedule'[h][d][sl]

\* C20: bookkeeping consistency.  In every state of generate() each grid flag
\* is true exactly when the timetable holds an entry for that teacher
\* (classroom, cohort) at that (day, slot), and the load counter of each
\* (cohort, day) is the number of entries with that cohort and day; no step of
\* a run resets or decreases the grids, the counters or the timetable, and a
\* run starts from all-free grids and an empty timetable.
C20_BookkeepingConsistency ==
    /\ []BookkeepingConsistent
    /\ [][NothingLost]_vars
    /\ [][StartsFree]_vars

\* the run is at its second subject with the first subject's entries kept,
\* two of them on one day of one cohort
C20_Witness ==
    /\ pc = "while"
    /\ si = 2
    /\ placed = 0
    /\ Len(timetable) >= 2
    /\ \E h \in DOMAIN cohort_load :
          \E d \in DOMAIN cohort_load[h] : cohort_load[h][d] = 2

\* the position in self.subjects of the subject named nm
SubjectIndex(nm) == CHOOSE i \in DOMAIN subjects : subjects[i].name = nm

\* the entries and the unplaced-sessions records stand in the order of their
\* subjects in the input, and none belongs to a subject the loop has not
\* reached
InInputOrder ==
    GridsBuilt =>
        /\ \A i, j \in DOMAIN timetable :
              i < j => SubjectIndex(timetable[i].subject) <= SubjectIndex(timetable[j].subject)
        /\ \A i \in DOMAIN timetable : SubjectIndex(timetable[i].subject) <= si
        /\ \A i, j \in DOMAIN conflicts :
              (i < j /\ IsUnplaced(conflicts[i]) /\ IsUnplaced(conflicts[j])) =>
                  SubjectIndex(conflicts[i].subjects[1]) < SubjectIndex(conflicts[j].subjects[1])

\* a step of a run never goes back to an earlier subject and leaves every
\* committed entry where it is
CommittedStays ==
    (GridsBuilt /\ GridsBuilt') =>
        /\ si' >= si
        /\ Len(timetable') >= Len(timetable)
        /\ \A i \in DOMAIN timetable : timetable'[i] = timetable[i]

\* the sessions the input asks for: (subject index, session number)
RequiredSessions ==
    UNION {{<<i, k>> : k \in 1..SessionsOf(subjects[i])} : i \in DOMAIN subjects}

\* the (day, slot, teacher index, classroom) choices open to one session
Choices ==
    {<<d, sl, t, c>> : d \in Range(days), sl \in Range(time_slots),
                       t \in DOMAIN teachers, c \in Range(classrooms)}

\* an assignment of every required session that respects the subject filter
\* and availability and puts no teacher, classroom or cohort twice into one
\* (day, slot)
IsCompleteAssignment(f) ==
    /\ \A s \in DOMAIN f :
          /\ teaches(teachers[f[s][3]], subjects[s[1]])
          /\ is_teacher_available(teachers[f[s][3]], f[s][1], f[s][2])
    /\ \A s1, s2 \in DOMAIN f :
          (s1 # s2 /\ f[s1][1] = f[s2][1] /\ f[s1][2] = f[s2][2]) =>
              /\ teachers[f[s1][3]].name # teachers[f[s2][3]].name
              /\ f[s1][4] # f[s2][4]
              /\ SemesterOf(subjects[s1[1]]) # SemesterOf(subjects[s2[1]])

CompleteAssignmentExists ==
    \E f \in [RequiredSessions -> Choices] : IsCompleteAssignment(f)

\* C21: no optimality, input-order priority.  Subjects are processed in input
\* order and a committed entry is never moved or removed: the timetable and
\* the unplaced-sessions records stand in input order, and every step of a run
\* keeps the subject position from going back and every entry in its place.
\* So an earlier subject keeps a slot even when the later subject has no other
\* (the witness).
C21_InputOrderPriority ==
    /\ []InInputOrder
    /\ [][CommittedStays]_vars

\* a complete clash-free assignment respecting availability exists for the
\* input, yet the returned result has an unplaced-sessions record for the
\* second subject: the first subject sits in the only (day, slot) at which the
\* second subject's teacher is available
C21_Witness ==
    /\ pc = "done"
    /\ Len(subjects) = 2
    /\ Len(timetable) = 1
    /\ timetable[1].subject = subjects[1].name
    /\ UnplacedOf(subjects[2]) # {}
    /\ \A t \in Range(teachers), d \in Range(days), sl \in Range(time_slots) :
          (teaches(t, subjects[2]) /\ is_teacher_available(t, d, sl)) =>
              (d = timetable[1].day /\ sl = timetable[1].time_slot)
    /\ \E t \in Range(teachers), d \in Range(days), sl \in Range(time_slots) :
          teaches(t, subjects[2]) /\ is_teacher_available(t, d, sl)
    /\ CompleteAssignmentExists

\* the session id an operation is addressed to: the one the request names, or
\* the new one the answer of a /generate without session_id carries
TargetOf(req, resp) ==
    IF "session_id" \in DOMAIN req /\ req.session_id # None THEN req.session_id
    ELSE IF "session_id" \in DOMAIN resp THEN resp.session_id
    ELSE None

\* the step leaves the stored record and the memory of session id y as they are
SessionKept(y) ==
    /\ (y \in DOMAIN timetables') <=> (y \in DOMAIN timetables)
    /\ y \in DOMAIN timetables => timetables'[y] = timetables[y]
    /\ (y \in DOMAIN session_memory') <=> (y \in DOMAIN session_memory)
    /\ y \in DOMAIN session_memory => session_memory'[y] = session_memory[y]

\* a step of an operation changes no session but the one it is addressed to
OthersKept ==
    \A y \in SessionIds : y # TargetOf(request', response') => SessionKept(y)

\* a step of an /update-timetable for a stored session keeps its metadata
UpdateKeepsMetadata ==
    (request'.kind = "update" /\ request'.session_id \in DOMAIN timetables) =>
        /\ request'.session_id \in DOMAIN timetables'
        /\ timetables'[request'.session_id].metadata =
               timetables[request'.session_id].metadata

\* C22: session isolation.  Over any sequence of requests, an operation
\* addressed to session id X (generate, update-timetable, memory get, update
\* or clear, conflicts, the exports) leaves the stored timetable, conflicts,
\* metadata and memory of every other session id unchanged, and a successful
\* update-timetable for X leaves X's stored metadata unchanged.
C22_SessionIsolation ==
    /\ [][OthersKept]_vars
    /\ [][UpdateKeepsMetadata]_vars

\* an /update-timetable for s1 has just answered 200 with a clash found and
\* its memory updated, s2 being stored with a record and a memory of its own
C22_Witness ==
    /\ pc = "start"
    /\ request.kind = "update"
    /\ request.session_id = "s1"
    /\ response.status = 200
    /\ response.conflicts # <<>>
    /\ {"s1", "s2"} \subseteq DOMAIN timetables
    /\ {"s1", "s2"} \subseteq DOMAIN session_memory
    /\ timetables["s1"].timetable # timetables["s2"].timetable
    /\ session_memory["s1"].days = <<"Tue", "Mon">>
    /\ session_memory["s2"].days = <<"Mon">>

\* the list a /generate body gives for the key, else the one the memory of the
\* session it names holds, else none
ListFor(data, key) ==
    IF key \in DOMAIN data THEN data[key]
    ELSE IF "session_id" \in DOMAIN data /\ data.session_id \in DOMAIN session_memory
            /\ key \in DOMAIN session_memory[data.session_id]
         THEN session_memory[data.session_id][key]
         ELSE <<>>

\* the request that has just arrived is a /generate with one of the five
\* lists missing or empty after the memory fallback
Rejected400 ==
    /\ request'.kind = "generate"
    /\ \/ ListFor(request'.data, "teachers") = <<>>
       \/ ListFor(request'.data, "subjects") = <<>>
       \/ ListFor(request'.data, "classrooms") = <<>>
       \/ ListFor(request'.data, "timeSlots") = <<>>
       \/ ListFor(request'.data, "days") = <<>>

UnknownTimetable ==
    /\ request'.kind \in {"update", "conflicts", "export_excel", "export_pdf"}
    /\ request'.session_id \notin DOMAIN timetables

UnknownMemory ==
    /\ request'.kind \in {"memory_get", "memory_clear"}
    /\ request'.session_id \notin DOMAIN session_memory

\* the step that takes a request: a rejected one is answered 400 or 404 and
\* every answer of 400 or 404 leaves both stores as they were
FailedChangesNothing ==
    pc = "start" =>
        /\ Rejected400 => response'.status = 400
        /\ UnknownTimetable => response'.status = 404
        /\ UnknownMemory => response'.status = 404
        /\ response'.status \in {400, 404} =>
              (Rejected400 \/ UnknownTimetable \/ UnknownMemory)
        /\ response'.status \in {400, 404} => UNCHANGED <<timetables, session_memory>>

\* C23: failed requests change nothing.  A generate request in which any of
\* teachers, subjects, classrooms, timeSlots or days is missing or empty after
\* the memory fallback answers 400; update-timetable, conflicts and export
\* requests for a session id not in the timetable store, and memory get and
\* clear for a session id not in the memory store, answer 404; in all these
\* cases the timetable store and the session memory are left as they were.
C23_FailedChangesNothing == [][FailedChangesNothing]_vars

\* a generate request for a stored session whose memory has no teachers has
\* just been answered 400, the fallback having been used
C23_Witness ==
    /\ pc = "start"
    /\ request.kind = "generate"
    /\ response.status = 400
    /\ "session_id" \in DOMAIN request.data
    /\ "teachers" \notin DOMAIN request.data
    /\ request.data.session_id \in DOMAIN session_memory
    /\ timetables # EmptyDict

\* the running thread's generator has returned its result
Returned == pc \in {"done", "stored"}

\* no two entries of the list at one (day, slot) share teacher, classroom or cohort
NoDoubleBooking(entries) ==
    \A i, j \in DOMAIN entries :
        (i # j /\ SameSlot(entries[i], entries[j])) =>
            /\ entries[i].teacher # entries[j].teacher
            /\ entries[i].classroom # entries[j].classroom
            /\ entries[i].semester # entries[j].semester

\* what generate() returns when run alone on one subject with one teacher of
\* it, free at all times, and one classroom: min(n, |days| x |slots|) entries
\* and an unplaced-sessions record for the rest, if any
AsWhenAlone ==
    (/\ Len(subjects) = 1 /\ Len(teachers) = 1 /\ Len(classrooms) = 1
     /\ teaches(teachers[1], subjects[1])
     /\ "availability" \notin DOMAIN teachers[1]) =>
        LET n == SessionsOf(subjects[1])
            cells == Len(days) * Len(time_slots)
        IN /\ Len(timetable) = Min(n, cells)
           /\ \A i \in DOMAIN timetable :
                 /\ timetable[i].subject = subjects[1].name
                 /\ timetable[i].teacher = teachers[1].name
                 /\ timetable[i].classroom = classrooms[1]
           /\ IF n <= cells THEN conflicts = <<>>
              ELSE /\ Len(conflicts) = 1
                   /\ IsUnplaced(conflicts[1])
                   /\ conflicts[1].missing_sessions = n - cells
                   /\ conflicts[1].suggestions = <<>>

\* each run works on its own grids and entry list, and what it returns is
\* free of double-booking and a result of the run alone
RunsIndependent ==
    /\ BookkeepingConsistent
    /\ NoDoubleBooking(timetable)
    /\ Returned => AsWhenAlone

\* a stored record is free of double-booking, its entries lie within its own
\* metadata, and its conflicts are unplaced-sessions records
StoredWhole ==
    \A sid \in DOMAIN timetables :
        /\ NoDoubleBooking(timetables[sid].timetable)
        /\ \A i \in DOMAIN timetables[sid].timetable :
              /\ timetables[sid].timetable[i].day \in Range(timetables[sid].metadata.days)
              /\ timetables[sid].timetable[i].time_slot
                     \in Range(timetables[sid].metadata.time_slots)
              /\ timetables[sid].timetable[i].classroom
                     \in Range(timetables[sid].metadata.classrooms)
        /\ \A k \in DOMAIN timetables[sid].conflicts :
              IsUnplaced(timetables[sid].conflicts[k])

\* the store changes only by a run that has returned putting its whole result
\* under one session id
StoredByOneRun ==
    timetables' # timetables =>
        /\ pc = "done"
        /\ \E sid \in SessionIds :
              /\ sid \in DOMAIN timetables'
              /\ timetables'[sid].timetable = timetable
              /\ timetables'[sid].conflicts = conflicts
              /\ timetables'[sid].metadata.days = days
              /\ timetables'[sid].metadata.time_slots = time_slots
              /\ timetables'[sid].metadata.classrooms = classrooms
              /\ \A y \in SessionIds \ {sid} :
                    /\ (y \in DOMAIN timetables') <=> (y \in DOMAIN timetables)
                    /\ y \in DOMAIN timetables => timetables'[y] = timetables[y]

\* a step changes the suspended run only by suspending the running one and
\* resuming it as it was left
OtherRunKept == parked' = parked \/ (parked' = locals /\ locals' = parked)

\* C24: independent grids under concurrency.  With the steps of several
\* generate runs interleaved in any order, each run works on its own grids,
\* load counters and entry list: its timetable is free of double-booking and
\* what it returns is a result it returns when run alone; and the timetable
\* stored for a session id is always the complete result of one run.
C24_IndependentRuns ==
    /\ []RunsIndependent
    /\ []StoredWhole
    /\ [][StoredByOneRun]_vars
    /\ [][OtherRunKept]_vars

\* two runs for the same session id on different day lists have both returned,
\* neither handler having answered yet
C24_Witness ==
    /\ pc = "done"
    /\ parked.pc = "done"
    /\ request.session_id = parked.request.session_id
    /\ Len(days) = 2
    /\ Len(parked.days) = 1
    /\ Len(timetable) = 2
    /\ Len(parked.timetable) = 1
    /\ parked.conflicts # <<>>

\* C25: store/memory agreement under concurrent generation, as claimed.  When
\* two generate requests with the same session_id and different inputs run
\* concurrently, then after both have finished the stored timetable record of
\* the session and its stored memory come from the same request: the memory's
\* days, timeSlots and classrooms equal the stored metadata's days, time_slots
\* and classrooms.
C25_StoreMemoryAgree ==
    (pc = "start" /\ parked.pc = "start") =>
        \A sid \in DOMAIN timetables :
            /\ sid \in DOMAIN session_memory
            /\ session_memory[sid].days = timetables[sid].metadata.days
            /\ session_memory[sid].timeSlots = timetables[sid].metadata.time_slots
            /\ session_memory[sid].classrooms = timetables[sid].metadata.classrooms

====
